---- MODULE Spec2Model ----
(***************************************************************************)
(* A model of the liqk gate (src/gate/src: proxy.rs, files.rs, auth.rs).   *)
(*                                                                         *)
(* Text is modelled as a sequence of one-character strings, so that        *)
(* splitting, joining, escaping and lower-casing are computed the way the  *)
(* code computes them.  An Option<T> is a record [some, v].                *)
(***************************************************************************)
EXTENDS Integers, Sequences, FiniteSets, TLC

VARIABLES
    \* ---- the policy graph of the upstream store: [pub, tok]
    policy,
    \* ---- proxy_handler (proxy.rs 24-147), one inbound request at a time
    px_pc,        \* "idle" | "rank" | "body" | "send" | "responded"
    px_req,       \* the inbound request
    px_rank,      \* rank (proxy.rs 43)
    px_store,     \* how the upstream queries of the rank resolution ended: "none" | "ok" | "failed"
    px_out,       \* proxy_req, the request built for the upstream store
    px_sent,      \* the requests handed to send() for this inbound request
    px_up,        \* the upstream response received, when one was
    px_resp,      \* the response returned to the client
    \* ---- the filesystem graph of the upstream store: the file records
    graph,
    \* ---- the blob directory FILES_DIR: a set of [name, data]
    fs,
    \* ---- Uuid::new_v4: the number of identifiers drawn so far
    uuid_n,
    \* ---- the environment faults (I/O errors, upstream failures) so far
    faults,
    \* ---- upload_handler (files.rs 693-845), one record per request slot
    up,
    \* ---- the GET handlers of files.rs (file_root_handler, file_handler,
    \*      res_handler, upload_page), one request at a time
    dl,
    \* ---- file-name pipeline of upload_handler (files.rs 732-753)
    nm_pc,        \* "start" | "named" | "skipped"
    nm_original,  \* the client-supplied file name of the multipart field
    nm_safe,      \* safe_filename
    nm_stored,    \* stored_filename
    \* ---- login_submit (auth.rs 143-173, main.rs 141-162), one submission at a time
    secure_cookies,  \* AppState.secure_cookies (auth.rs 30)
    lg,              \* the submission and its response
    \* ---- lookup_directory_contents (files.rs 300-390) called on one container
    ls,              \* the children the store holds and the results of the calls so far
    \* ---- liqk-crypto (src/liqk-crypto/src/main.rs): one encrypted file and its decryption
    cr               \* the plaintext, the keys, the encrypted file and the outcome of decrypt

proxyVars == <<policy, px_pc, px_req, px_rank, px_store, px_out, px_sent, px_up, px_resp>>
fileVars == <<graph, fs, uuid_n, faults, up, dl>>
nameVars == <<nm_pc, nm_original, nm_safe, nm_stored>>

loginVars == <<secure_cookies, lg>>
listVars == <<ls>>
cryptoVars == <<cr>>

vars == <<proxyVars, fileVars, nameVars, loginVars, listVars, cryptoVars>>

\* ---------------------------------------------------------------- bounds
MaxNameLen == 5
MaxHeaders == 2
\* MAX_UPLOAD_SIZE (files.rs 18) is 4 GiB; the handler only compares the running
\* total with it, and the model counts bytes against a ceiling of CeilingBytes.
CeilingBytes == 3
MaxFields == 2
MaxChunks == 2
MaxFaults == 1

\* ------------------------------------------------------------------ text
None == [some |-> FALSE, v |-> <<>>]
Some(x) == [some |-> TRUE, v |-> x]

RECURSIVE SeqsUpTo(_, _)
SeqsUpTo(S, n) ==
    IF n = 0 THEN {<<>>}
    ELSE LET shorter == SeqsUpTo(S, n - 1)
         IN  shorter \cup {Append(s, c) : s \in {t \in shorter : Len(t) = n - 1}, c \in S}

\* str::split(sep): the pieces between separators, empty pieces kept.
RECURSIVE SplitOn(_, _)
SplitOn(s, sep) ==
    IF s = <<>> THEN << <<>> >>
    ELSE LET rest == SplitOn(Tail(s), sep)
         IN  IF Head(s) = sep
             THEN << <<>> >> \o rest
             ELSE << <<Head(s)>> \o Head(rest) >> \o Tail(rest)

\* [&str]::join(sep)
RECURSIVE JoinWith(_, _)
JoinWith(parts, sep) ==
    IF Len(parts) = 0 THEN <<>>
    ELSE IF Len(parts) = 1 THEN parts[1]
    ELSE parts[1] \o <<sep>> \o JoinWith(Tail(parts), sep)

StartsWith(s, p) == Len(s) >= Len(p) /\ SubSeq(s, 1, Len(p)) = p

\* ------------------------------------------------------- text, continued
\* char::to_lowercase on the letters A-Z; every other character is kept.
UpperToLower ==
    [ A |-> "a", B |-> "b", C |-> "c", D |-> "d", E |-> "e", F |-> "f", G |-> "g",
      H |-> "h", I |-> "i", J |-> "j", K |-> "k", L |-> "l", M |-> "m", N |-> "n",
      O |-> "o", P |-> "p", Q |-> "q", R |-> "r", S |-> "s", T |-> "t", U |-> "u",
      V |-> "v", W |-> "w", X |-> "x", Y |-> "y", Z |-> "z" ]
Lower(c) == IF c \in DOMAIN UpperToLower THEN UpperToLower[c] ELSE c

\* str::to_lowercase
ToLowercase(s) == [i \in 1..Len(s) |-> Lower(s[i])]

Max2(a, b) == IF a >= b THEN a ELSE b

\* ------------------------------------------------------ credentials (auth.rs)
\* The configured access token and a string that is not it.
AccessToken == "tok"
WrongToken == "bad"

X_ACCESS_TOKEN == <<"x", "-", "a", "c", "c", "e", "s", "s", "-", "t", "o", "k", "e", "n">>
AUTHORIZATION == <<"a", "u", "t", "h", "o", "r", "i", "z", "a", "t", "i", "o", "n">>
COOKIE == <<"c", "o", "o", "k", "i", "e">>
BearerPrefix == "Bearer "
TOKEN_COOKIE_NAME == "oxigraph_gate_token="

\* A header is [name, text, value]: name is the text of the header name, text
\* says whether HeaderValue::to_str succeeds (visible ASCII only), and value is
\* the value as a sequence of tokens, such as <<"Bearer ", "tok">>.
Header(n, t, v) == [name |-> n, text |-> t, value |-> v]

\* HeaderMap::get(name): the first value under that name, names compared
\* without regard to case.
RECURSIVE HeaderGet(_, _)
HeaderGet(headers, lname) ==
    IF headers = <<>> THEN None
    ELSE IF ToLowercase(Head(headers).name) = lname THEN Some(Head(headers))
    ELSE HeaderGet(Tail(headers), lname)

\* auth.rs 80-92
extract_token_from_header(headers) ==
    LET x == HeaderGet(headers, X_ACCESS_TOKEN)
        a == HeaderGet(headers, AUTHORIZATION)
    IN  IF x.some /\ x.v.text THEN Some(x.v.value)
        ELSE IF a.some /\ a.v.text /\ a.v.value # <<>> /\ Head(a.v.value) = BearerPrefix
             THEN Some(Tail(a.v.value))
        ELSE None

\* CookieJar::get(TOKEN_COOKIE_NAME): the session cookie of the Cookie header.
JarGet(headers) ==
    LET c == HeaderGet(headers, COOKIE)
    IN  IF c.some /\ c.v.text /\ c.v.value # <<>> /\ Head(c.v.value) = TOKEN_COOKIE_NAME
        THEN Some(Tail(c.v.value))
        ELSE None

\* auth.rs 118-132
constant_time_compare(a, b) == IF Len(a) # Len(b) THEN FALSE ELSE a = b

\* a check that decides on the header token alone when there is one
validate_token_header_alone(headers) ==
    LET h == extract_token_from_header(headers)
        j == JarGet(headers)
    IN  IF h.some THEN constant_time_compare(h.v, <<AccessToken>>)
        ELSE j.some /\ constant_time_compare(j.v, <<AccessToken>>)

\* a check that accepts any presented credential
validate_token_any_presented(headers) ==
    extract_token_from_header(headers).some \/ JarGet(headers).some

\* auth.rs 100-114
validate_token(headers) ==
    LET h == extract_token_from_header(headers)
        j == JarGet(headers)
    IN  IF h.some /\ constant_time_compare(h.v, <<AccessToken>>) THEN TRUE
        ELSE IF j.some /\ constant_time_compare(j.v, <<AccessToken>>) THEN TRUE
        ELSE FALSE

\* ------------------------------------------------------------ ranks
Ranks == 0..3
VIEW_RANK == 1
EDIT_RANK == 3

\* The credential the rank resolver looks up: the header token, else the cookie.
CandidateCredential(headers) ==
    LET h == extract_token_from_header(headers)
    IN  IF h.some THEN h ELSE JarGet(headers)

\* files::get_access_rank_iri (used at proxy.rs 43): the maximum of the public
\* rank and of the rank granted to the presented credential, 0 when an upstream
\* query fails.  pol is the policy graph: [pub, tok], tok being the rank granted
\* to the registered credential.
get_access_rank_iri(pol, upstream_ok, headers) ==
    LET c == CandidateCredential(headers)
    IN  IF ~upstream_ok THEN 0
        ELSE Max2(pol.pub, IF c.some /\ c.v = <<AccessToken>> THEN pol.tok ELSE 0)

\* ------------------------------------------------------------ proxy.rs
update_prefix == <<"/", "u", "p", "d", "a", "t", "e">>

\* a required_rank_for_path that compares the path as it is written
required_rank_for_path_cased(path) ==
    IF StartsWith(path, update_prefix) THEN 3 ELSE 1

\* proxy.rs 15-22
required_rank_for_path(path) ==
    IF StartsWith(ToLowercase(path), update_prefix) THEN 3 ELSE 1

\* a rank check that lets a rank one below the required rank through
AccessDenied_off_by_one(rank, required_rank) == rank < required_rank - 1

\* a rank check that takes rank 0 for "no policy applies" and lets it through
AccessDenied_fail_open(rank, required_rank) == rank # 0 /\ rank < required_rank

\* proxy.rs 46
AccessDenied(rank, required_rank) == rank < required_rank

Methods == {"GET", "POST", "PUT", "DELETE", "HEAD", "OPTIONS", "PATCH", "TRACE", "CONNECT"}

\* proxy.rs 149-160
method_to_reqwest(method) ==
    CASE method = "GET" -> "GET"
      [] method = "POST" -> "POST"
      [] method = "PUT" -> "PUT"
      [] method = "DELETE" -> "DELETE"
      [] method = "HEAD" -> "HEAD"
      [] method = "OPTIONS" -> "OPTIONS"
      [] method = "PATCH" -> "PATCH"
      [] OTHER -> "GET"

DenyList ==
        { <<"h", "o", "s", "t">>,
          <<"c", "o", "n", "n", "e", "c", "t", "i", "o", "n">>,
          <<"k", "e", "e", "p", "-", "a", "l", "i", "v", "e">>,
          <<"p", "r", "o", "x", "y", "-", "a", "u", "t", "h", "e", "n", "t", "i", "c", "a", "t", "e">>,
          <<"p", "r", "o", "x", "y", "-", "a", "u", "t", "h", "o", "r", "i", "z", "a", "t", "i", "o", "n">>,
          <<"t", "e">>,
          <<"t", "r", "a", "i", "l", "e", "r", "s">>,
          <<"t", "r", "a", "n", "s", "f", "e", "r", "-", "e", "n", "c", "o", "d", "i", "n", "g">>,
          <<"u", "p", "g", "r", "a", "d", "e">>,
          <<"x", "-", "a", "c", "c", "e", "s", "s", "-", "t", "o", "k", "e", "n">>,
          <<"a", "u", "t", "h", "o", "r", "i", "z", "a", "t", "i", "o", "n">>,
          <<"c", "o", "o", "k", "i", "e">> }

\* a header filter that compares the name as it is written
should_forward_header_cased(name) == name \notin DenyList

\* proxy.rs 162-179
should_forward_header(name) == ToLowercase(name) \notin DenyList

\* proxy.rs 79-85: the inbound headers copied onto the outbound request
RECURSIVE ForwardedHeaders(_)
ForwardedHeaders(headers) ==
    IF headers = <<>> THEN <<>>
    ELSE LET h == Head(headers)
             rest == ForwardedHeaders(Tail(headers))
         IN  IF should_forward_header(h.name)
             THEN (IF h.text THEN <<h>> \o rest ELSE rest)
             ELSE rest

\* HeaderMap::insert(name, value): the value replaces every value held under the name.
HeaderMapInsert(map, h) ==
    SelectSeq(map, LAMBDA o : ToLowercase(o.name) # ToLowercase(h.name)) \o <<h>>

\* proxy.rs 94-102: the upstream headers set on the relayed response; a value
\* that is not text is replaced by the empty value.
RECURSIVE RelayedHeaders(_, _)
RelayedHeaders(map, headers) ==
    IF headers = <<>> THEN map
    ELSE LET h == Head(headers)
             v == IF h.text THEN h ELSE Header(h.name, TRUE, <<>>)
         IN  RelayedHeaders(IF should_forward_header(h.name) THEN HeaderMapInsert(map, v) ELSE map,
                            Tail(headers))

\* ---- inputs of the proxy
NoRequest == [method |-> "", path |-> <<>>, query |-> None, headers |-> <<>>,
              body |-> [ok |-> TRUE, bytes |-> <<>>]]
NoOutbound == [method |-> "", path |-> <<>>, query |-> None, headers |-> <<>>, body |-> None]
NoResponse == [status |-> 0, headers |-> <<>>, body |-> <<>>]

Policies == [pub : Ranks, tok : Ranks]

Paths ==
    { <<"/", "u", "p", "d", "a", "t", "e">>,
      <<"/", "U", "P", "D", "A", "T", "E">>,
      <<"/", "U", "p", "d", "a", "t", "e", "/", "x">>,
      <<"/", "u", "p", "d", "a", "t", "e", "s">>,
      <<"/", "q", "u", "e", "r", "y">>,
      <<"/">>,
      <<"/", "s", "t", "o", "r", "e">>,
      <<"/", "x", "/", "u", "p", "d", "a", "t", "e">> }
Queries == {None, Some(<<"u", "p", "d", "a", "t", "e", "=", "x">>)}
\* the request body: read in full, or the read fails (proxy.rs 59-75)
Bodies == {[ok |-> TRUE, bytes |-> <<>>], [ok |-> TRUE, bytes |-> <<1, 2>>],
           [ok |-> FALSE, bytes |-> <<>>]}

HeaderNames ==
    DenyList \cup
    { <<"C", "o", "o", "k", "i", "e">>,
      <<"C", "O", "O", "K", "I", "E">>,
      <<"A", "u", "t", "h", "o", "r", "i", "z", "a", "t", "i", "o", "n">>,
      <<"X", "-", "A", "c", "c", "e", "s", "s", "-", "T", "o", "k", "e", "n">>,
      <<"H", "o", "s", "t">>,
      <<"T", "E">>,
      <<"a", "c", "c", "e", "p", "t">>,
      <<"C", "o", "n", "t", "e", "n", "t", "-", "T", "y", "p", "e">>,
      <<"c", "o", "o", "k", "i", "e", "2">>,
      <<"x", "-", "f", "o", "r", "w", "a", "r", "d", "e", "d", "-", "f", "o", "r">> }

\* every sample name with a text value, and a few with a value that is no text
HeaderSamples ==
    {Header(n, TRUE, <<"v">>) : n \in HeaderNames} \cup
    {Header(n, FALSE, <<"\\xff">>) : n \in {<<"a", "c", "c", "e", "p", "t">>, <<"c", "o", "o", "k", "i", "e">>, <<"x", "-", "f", "o", "r", "w", "a", "r", "d", "e", "d", "-", "f", "o", "r">>}}

\* header sets that carry a credential, or none
CredentialHeaders ==
    { <<>>,
      <<Header(<<"X", "-", "A", "c", "c", "e", "s", "s", "-", "T", "o", "k", "e", "n">>, TRUE, <<AccessToken>>)>>,
      <<Header(X_ACCESS_TOKEN, TRUE, <<WrongToken>>)>>,
      <<Header(<<"A", "u", "t", "h", "o", "r", "i", "z", "a", "t", "i", "o", "n">>, TRUE, <<BearerPrefix, AccessToken>>)>>,
      <<Header(<<"C", "o", "o", "k", "i", "e">>, TRUE, <<TOKEN_COOKIE_NAME, AccessToken>>)>>,
      <<Header(COOKIE, TRUE, <<TOKEN_COOKIE_NAME, WrongToken>>)>> }

\* requests over every path, query and credential
GateRequests ==
    [method : {"GET", "POST"}, path : Paths, query : Queries,
     headers : CredentialHeaders, body : Bodies]
\* requests over every method
MethodRequests ==
    [method : Methods,
     path : {<<"/", "q", "u", "e", "r", "y">>, update_prefix, <<"/", "s", "t", "o", "r", "e">>},
     query : {None},
     headers : {<<>>, <<Header(X_ACCESS_TOKEN, TRUE, <<AccessToken>>)>>}, body : Bodies]
\* requests over every header list
HeaderRequests ==
    [method : {"GET"}, path : {<<"/", "q", "u", "e", "r", "y">>}, query : {None},
     headers : SeqsUpTo(HeaderSamples, MaxHeaders),
     body : {[ok |-> TRUE, bytes |-> <<>>]}]

\* upstream responses: [status, headers, body_ok, body]
UpStatuses == {200, 404, 500, 502}
PlainUpstreamResponses ==
    [status : UpStatuses, headers : {<<Header(<<"c", "o", "n", "t", "e", "n", "t", "-", "t", "y", "p", "e">>, TRUE, <<"v">>)>>},
     body_ok : BOOLEAN, body : {<<7, 8>>}]
\* headers of an upstream response: a name that comes twice, names of the
\* deny-list, and a value that is no text
UpstreamHeaderSamples ==
    { Header(<<"c", "o", "n", "t", "e", "n", "t", "-", "t", "y", "p", "e">>, TRUE, <<"v">>),
      Header(<<"S", "e", "t", "-", "C", "o", "o", "k", "i", "e">>, TRUE, <<"v">>),
      Header(<<"s", "e", "t", "-", "c", "o", "o", "k", "i", "e">>, TRUE, <<"w">>),
      Header(<<"C", "o", "n", "n", "e", "c", "t", "i", "o", "n">>, TRUE, <<"v">>),
      Header(<<"t", "r", "a", "n", "s", "f", "e", "r", "-", "e", "n", "c", "o", "d", "i", "n", "g">>, TRUE, <<"v">>),
      Header(<<"e", "t", "a", "g">>, FALSE, <<"\\xff">>) }
RichUpstreamResponses ==
    [status : {200}, headers : SeqsUpTo(UpstreamHeaderSamples, MaxHeaders),
     body_ok : {TRUE}, body : {<<>>, <<7, 8>>}]
\* the header lists of the upstream response vary when the inbound request has none
UpstreamResponses(req) ==
    IF req.headers = <<>> /\ req.method = "GET" /\ req.query = None /\ req.body.bytes = <<>>
    THEN PlainUpstreamResponses \cup RichUpstreamResponses
    ELSE PlainUpstreamResponses

\* ---- proxy_handler
TextResponse(status, text) == [status |-> status, headers |-> <<>>, body |-> <<text>>]

\* proxy.rs 30-40: a request arrives on the fallback route
ProxyReceive(requests) ==
    /\ px_pc = "idle"
    /\ px_req' \in requests
    /\ px_pc' = "rank"
    /\ px_rank' = 0
    /\ px_store' = "none"
    /\ px_out' = NoOutbound
    /\ px_sent' = <<>>
    /\ px_up' = NoResponse
    /\ px_resp' = NoResponse
    /\ UNCHANGED policy

\* proxy.rs 42-56: the rank is resolved and compared with the required rank
ProxyRankCheck ==
    /\ px_pc = "rank"
    /\ \E upstream_ok \in BOOLEAN :
         LET rank == get_access_rank_iri(policy, upstream_ok, px_req.headers)
             required_rank == required_rank_for_path(px_req.path)
         IN  /\ px_rank' = rank
             /\ px_store' = IF upstream_ok THEN "ok" ELSE "failed"
             /\ IF AccessDenied(rank, required_rank)
                THEN /\ px_resp' = TextResponse(403, "Access denied")
                     /\ px_pc' = "responded"
                ELSE /\ px_resp' = px_resp
                     /\ px_pc' = "body"
    /\ UNCHANGED <<policy, px_req, px_out, px_sent, px_up>>

\* proxy.rs 57-89: the body is read and the outbound request built
ProxyBuild ==
    /\ px_pc = "body"
    /\ IF px_req.body.ok
       THEN /\ px_out' = [method |-> method_to_reqwest(px_req.method),
                          path |-> px_req.path, query |-> px_req.query,
                          headers |-> ForwardedHeaders(px_req.headers),
                          body |-> IF px_req.body.bytes # <<>>
                                   THEN Some(px_req.body.bytes) ELSE None]
            /\ px_pc' = "send"
            /\ px_resp' = px_resp
       ELSE /\ px_out' = px_out
            /\ px_pc' = "responded"
            /\ px_resp' = TextResponse(400, "Failed to read request body")
    /\ UNCHANGED <<policy, px_req, px_rank, px_store, px_sent, px_up>>

\* proxy.rs 91-131: the upstream store answers
ProxySendOk ==
    /\ px_pc = "send"
    /\ \E resp \in UpstreamResponses(px_req) :
         /\ px_up' = resp
         /\ px_resp' = IF resp.body_ok
                       THEN [status |-> resp.status,
                             headers |-> RelayedHeaders(<<>>, resp.headers),
                             body |-> resp.body]
                       ELSE TextResponse(502, "Failed to read response body")
    /\ px_sent' = Append(px_sent, px_out)
    /\ px_pc' = "responded"
    /\ UNCHANGED <<policy, px_req, px_rank, px_store, px_out>>

\* a send that is tried a second time after it failed
ProxySendErr_retry ==
    /\ px_pc = "send"
    /\ px_sent' = px_sent \o <<px_out, px_out>>
    /\ px_resp' = TextResponse(502, "Proxy request failed")
    /\ px_pc' = "responded"
    /\ UNCHANGED <<policy, px_req, px_rank, px_store, px_out, px_up>>

\* proxy.rs 132-146: the send fails
ProxySendErr ==
    /\ px_pc = "send"
    /\ px_sent' = Append(px_sent, px_out)
    /\ px_resp' = TextResponse(502, "Proxy request failed")
    /\ px_pc' = "responded"
    /\ UNCHANGED <<policy, px_req, px_rank, px_store, px_out, px_up>>

\* the response is returned; the handler keeps nothing
ProxyDone ==
    /\ px_pc = "responded"
    /\ px_pc' = "idle"
    /\ px_req' = NoRequest
    /\ px_rank' = 0
    /\ px_store' = "none"
    /\ px_out' = NoOutbound
    /\ px_sent' = <<>>
    /\ px_up' = NoResponse
    /\ px_resp' = NoResponse
    /\ UNCHANGED policy

ProxyIdle ==
    /\ px_pc = "idle"
    /\ px_req = NoRequest
    /\ px_rank = 0
    /\ px_store = "none"
    /\ px_out = NoOutbound
    /\ px_sent = <<>>
    /\ px_up = NoResponse
    /\ px_resp = NoResponse

\* ------------------------------------------------- file names (files.rs)
\* The characters a client-supplied file name is drawn from.
NameChars == {"a", "b", ".", "/"}

unnamed == <<"u", "n", "n", "a", "m", "e", "d">>
bin == <<"b", "i", "n">>

\* PathBuf::from(name).file_name(): the last component of the path when it is
\* a normal one; empty and "." components are not components, ".." is not normal.
PathFileName(name) ==
    LET comps == SelectSeq(SplitOn(name, "/"), LAMBDA c : c # <<>> /\ c # <<".">>)
    IN  IF Len(comps) = 0 THEN None
        ELSE IF comps[Len(comps)] = <<".", ".">> THEN None
        ELSE Some(comps[Len(comps)])

\* files.rs 738-742
SafeFilename(original) ==
    LET base == PathFileName(original)
    IN  IF base.some THEN base.v ELSE unnamed

\* a name check that lets dotfiles through
InvalidFilename_empty_only(safe) == safe = <<>>

\* files.rs 744
InvalidFilename(safe) == safe = <<>> \/ StartsWith(safe, <<".">>)

\* The extension as the last dot-delimited piece.
extract_extension_last(filename) ==
    LET parts == SplitOn(filename, ".")
    IN  IF Len(parts) > 1 THEN Some(parts[Len(parts)]) ELSE None

\* files.rs 22-29
extract_extension(filename) ==
    LET parts == SplitOn(filename, ".")
    IN  IF Len(parts) > 1 THEN Some(JoinWith(Tail(parts), ".")) ELSE None

\* files.rs 751: extract_extension(..).unwrap_or_else(|| "bin")
ExtensionOf(safe) ==
    LET e == extract_extension(safe)
    IN  IF e.some THEN e.v ELSE bin

\* The text of a Uuid (36 characters of [0-9a-f-]) is kept as one token.
UuidText(u) == <<u>>

\* a stored name made of the extension alone, without the identifier
StoredFilename_without_uuid(u, extension) == <<"f", ".">> \o extension

\* files.rs 752: format!("{}.{}", file_uuid, extension)
StoredFilename(u, extension) == UuidText(u) \o <<".">> \o extension

\* ------------------------------------------------ graph queries (files.rs)
\* str::replace('"', "\\\"") (files.rs 65)
RECURSIVE EscapeQuotes(_)
EscapeQuotes(t) ==
    IF t = <<>> THEN <<>>
    ELSE (IF Head(t) = "\"" THEN <<"\\", "\"">> ELSE <<Head(t)>>) \o EscapeQuotes(Tail(t))

\* an insert that interpolates the file name as it is
build_sparql_insert_raw(file_uuid, original_filename, extension, file_size) ==
    [uuid |-> file_uuid,
     label |-> original_filename,
     size |-> file_size,
     storedAs |-> StoredFilename(file_uuid, extension)]

\* files.rs 32-72: the texts interpolated into the INSERT DATA template: the
\* label between the quotes of rdfs:label "...", the stored name between the
\* quotes of liqk:storedAs "...".
build_sparql_insert(file_uuid, original_filename, extension, file_size) ==
    [uuid |-> file_uuid,
     label |-> EscapeQuotes(original_filename),
     size |-> file_size,
     storedAs |-> StoredFilename(file_uuid, extension)]

\* The upstream store reads the text between two quotes as a SPARQL string
\* literal (STRING_LITERAL2): a bare quote ends the literal early, a backslash
\* must begin one of the escapes \t \b \n \r \f \" \' \\.  None: the text is
\* no literal body, and the update holding it is a syntax error.
EscapedChar(c) ==
    CASE c = "\"" -> Some("\"")
      [] c = "\\" -> Some("\\")
      [] c = "'" -> Some("'")
      [] c = "t" -> Some("<TAB>")
      [] c = "b" -> Some("<BS>")
      [] c = "n" -> Some("<LF>")
      [] c = "r" -> Some("<CR>")
      [] c = "f" -> Some("<FF>")
      [] OTHER -> None

RECURSIVE ParseLiteral(_)
ParseLiteral(t) ==
    IF t = <<>> THEN Some(<<>>)
    ELSE IF Head(t) = "\"" THEN None
    ELSE IF Head(t) = "\\"
         THEN IF Len(t) < 2 \/ ~EscapedChar(t[2]).some THEN None
              ELSE LET rest == ParseLiteral(SubSeq(t, 3, Len(t)))
                   IN  IF rest.some THEN Some(<<EscapedChar(t[2]).v>> \o rest.v) ELSE None
    ELSE LET rest == ParseLiteral(Tail(t))
         IN  IF rest.some THEN Some(<<Head(t)>> \o rest.v) ELSE None

\* The upstream store executes the update: Some(graph') when the update parses,
\* None (a non-success status) when it does not.
StoreInsert(g, q) ==
    LET label == ParseLiteral(q.label)
        stored == ParseLiteral(q.storedAs)
    IN  IF label.some /\ stored.some
        THEN Some(g \cup {[uuid |-> q.uuid, label |-> label.v, size |-> q.size,
                           storedAs |-> stored.v]})
        ELSE None

\* files.rs 96-143 on a store that answers: results.bindings[0].storedAs.value
\* of  <urn:uuid:{uuid}> liqk:storedAs ?storedAs
lookup_file_by_uuid(g, uuid) ==
    LET hits == {rec \in g : UuidText(rec.uuid) = uuid}
    IN  IF hits = {} THEN None ELSE Some((CHOOSE rec \in hits : TRUE).storedAs)

\* ------------------------------------------------------ the blob directory
FsHas(f, name) == \E e \in f : e.name = name
FsRead(f, name) == (CHOOSE e \in f : e.name = name).data
FsRemove(f, name) == {e \in f : e.name # name}
\* File::create: a new empty file, an existing one truncated
FsCreate(f, name) == FsRemove(f, name) \cup {[name |-> name, data |-> <<>>]}
FsWrite(f, name, d) == FsRemove(f, name) \cup {[name |-> name, data |-> d]}

\* ------------------------------------------------------------ responses
RedirectToLogin == [status |-> 303, headers |-> <<"Location: /gate/login">>, body |-> <<>>]
StatusText(status, text) == [status |-> status, headers |-> <<>>, body |-> <<text>>]
\* files.rs 843-844
UploadSummary(uploaded_files) ==
    [status |-> 200, headers |-> <<>>,
     body |-> <<"upload_success_html", Len(uploaded_files), uploaded_files>>]
\* files.rs 615-620, 665-670
FileBytes(contents) == [status |-> 200, headers |-> <<"Content-Type">>, body |-> contents]
DirectoryHtml(entries) == [status |-> 200, headers |-> <<>>, body |-> <<"directory", entries>>]
NoResp == [status |-> 0, headers |-> <<>>, body |-> <<>>]

\* ------------------------------------------------------------ upload_handler
MAX_UPLOAD_SIZE == CeilingBytes

Uuids == <<"u1", "u2", "u3", "u4", "u5", "u6">>
MaxUuids == MaxFields

UploadSlots == {1, 2}

NoItem == [original |-> <<>>, safe |-> <<>>, uuid |-> "", extension |-> <<>>,
           stored |-> <<>>, file_size |-> 0, nchunks |-> 0,
           received |-> <<>>, last |-> <<>>]

UploadIdle ==
    [pc |-> "idle", headers |-> <<>>, dir |-> "", uploaded_files |-> <<>>,
     total_size |-> 0, nfields |-> 0, item |-> NoItem, resp |-> NoResp,
     queries |-> 0, fsops |-> 0, log |-> <<>>, stream |-> "open"]

\* the record of one multipart field in the log of a request: what the client
\* sent for it, and how the handler left it
LogEntry(item, st) ==
    [original |-> item.original, safe |-> item.safe, uuid |-> item.uuid,
     stored |-> item.stored, received |-> item.received, st |-> st]

Set(r, rec) == [up EXCEPT ![r] = rec]
Respond(u, response) == [u EXCEPT !.pc = "responded", !.resp = response]
Fault == faults < MaxFaults /\ faults' = faults + 1
NoFault == faults' = faults

\* a request for POST /upload arrives (while identifiers remain to be drawn)
UploadReceive(r, hdrs) ==
    /\ up[r].pc = "idle"
    /\ uuid_n < MaxUuids
    /\ \E h \in hdrs : up' = Set(r, [UploadIdle EXCEPT !.pc = "auth", !.headers = h])
    /\ UNCHANGED <<graph, fs, uuid_n, faults, dl>>

\* files.rs 700-703
UploadAuth(r) ==
    /\ up[r].pc = "auth"
    /\ up' = Set(r, IF ~validate_token(up[r].headers)
                    THEN Respond(up[r], RedirectToLogin)
                    ELSE [up[r] EXCEPT !.pc = "lookup_dir"])
    /\ UNCHANGED <<graph, fs, uuid_n, faults, dl>>

\* files.rs 705-720: lookup_child_dir_of_root("upload")
UploadLookupDir(r) ==
    /\ up[r].pc = "lookup_dir"
    /\ LET u == [up[r] EXCEPT !.queries = @ + 1]
       IN  \/ /\ NoFault
              /\ up' = Set(r, [u EXCEPT !.pc = "mkdir", !.dir = "urn:uuid:upload"])
           \/ /\ Fault
              /\ \E text \in {"Upload directory not configured",
                              "Failed to lookup upload directory"} :
                     up' = Set(r, Respond(u, StatusText(500, text)))
    /\ UNCHANGED <<graph, fs, uuid_n, dl>>

\* files.rs 722-729: create_dir_all(FILES_DIR)
UploadMkdir(r) ==
    /\ up[r].pc = "mkdir"
    /\ \/ /\ NoFault
          /\ up' = Set(r, [up[r] EXCEPT !.pc = "next_field", !.uploaded_files = <<>>,
                                        !.total_size = 0])
       \/ /\ Fault
          /\ up' = Set(r, Respond(up[r], StatusText(500, "Failed to create files directory")))
    /\ UNCHANGED <<graph, fs, uuid_n, dl>>

\* files.rs 839-845: after the loop
UploadFinish(u) ==
    IF u.uploaded_files = <<>>
    THEN Respond(u, StatusText(400, "No files uploaded"))
    ELSE Respond(u, UploadSummary(u.uploaded_files))

\* files.rs 731: next_field() gives Ok(None), the end of the stream
UploadEndOfStream(r) ==
    /\ up[r].pc = "next_field"
    /\ up' = Set(r, UploadFinish([up[r] EXCEPT !.stream = "end"]))
    /\ UNCHANGED <<graph, fs, uuid_n, faults, dl>>

\* files.rs 731: next_field() gives Err, the stream is malformed between two fields
UploadMalformed(r) ==
    /\ up[r].pc = "next_field"
    /\ up' = Set(r, UploadFinish([up[r] EXCEPT !.stream = "malformed"]))
    /\ UNCHANGED <<graph, fs, uuid_n, faults, dl>>

\* files.rs 731-753: next_field() gives a field; name is its file_name()
UploadNextField(r, names, max_fields) ==
    /\ up[r].pc = "next_field"
    /\ up[r].nfields < max_fields
    /\ uuid_n < MaxUuids
    /\ \E name \in names \cup {None} :
         LET u == [up[r] EXCEPT !.nfields = @ + 1]
             safe_filename == SafeFilename(name.v)
             file_uuid == Uuids[uuid_n + 1]
             extension == ExtensionOf(safe_filename)
             item == [NoItem EXCEPT !.original = name.v, !.safe = safe_filename,
                                    !.uuid = file_uuid, !.extension = extension,
                                    !.stored = StoredFilename(file_uuid, extension)]
         IN  IF ~name.some
             THEN /\ up' = Set(r, [u EXCEPT !.log = Append(@, LogEntry(NoItem, "no_file_name"))])
                  /\ uuid_n' = uuid_n
             ELSE IF InvalidFilename(safe_filename)
             THEN /\ up' = Set(r, [u EXCEPT !.log = Append(@,
                                      LogEntry([NoItem EXCEPT !.original = name.v,
                                                              !.safe = safe_filename],
                                               "invalid"))])
                  /\ uuid_n' = uuid_n
             ELSE /\ up' = Set(r, [u EXCEPT !.pc = "create", !.item = item])
                  /\ uuid_n' = uuid_n + 1
    /\ UNCHANGED <<graph, fs, faults, dl>>

\* files.rs 756-765: File::create(file_path)
UploadCreate(r) ==
    /\ up[r].pc = "create"
    /\ LET u == [up[r] EXCEPT !.fsops = @ + 1]
       IN  \/ /\ NoFault
              /\ fs' = FsCreate(fs, u.item.stored)
              /\ up' = Set(r, [u EXCEPT !.pc = "chunk"])
           \/ /\ Fault
              /\ fs' = fs
              /\ up' = Set(r, Respond([u EXCEPT !.log = Append(@, LogEntry(u.item, "create_failed"))],
                                      StatusText(500, "Failed to create file")))
    /\ UNCHANGED <<graph, uuid_n, dl>>

\* a size check that also refuses a total equal to the ceiling
ExceedsCeiling_at(total_size) == total_size >= MAX_UPLOAD_SIZE

\* files.rs 773
ExceedsCeiling(total_size) == total_size > MAX_UPLOAD_SIZE

\* files.rs 768-784: chunk() gives a chunk
UploadChunk(r, chunks) ==
    /\ up[r].pc = "chunk"
    /\ up[r].item.nchunks < MaxChunks
    /\ \E chunk \in chunks :
         LET u == [up[r] EXCEPT !.item.file_size = @ + Len(chunk),
                                !.total_size = @ + Len(chunk),
                                !.item.nchunks = @ + 1,
                                !.item.received = @ \o chunk,
                                !.item.last = chunk,
                                !.fsops = @ + 1]
         IN  IF ExceedsCeiling(u.total_size)
             THEN /\ fs' = FsRemove(fs, u.item.stored)
                  /\ up' = Set(r, Respond([u EXCEPT !.log = Append(@, LogEntry(u.item, "too_large"))],
                                          StatusText(413, "Upload size limit exceeded (max 4 GB)")))
                  /\ NoFault
             ELSE \/ /\ NoFault
                     /\ fs' = FsWrite(fs, u.item.stored, FsRead(fs, u.item.stored) \o chunk)
                     /\ up' = Set(r, u)
                  \/ /\ Fault
                     /\ fs' = FsRemove(fs, u.item.stored)
                     /\ up' = Set(r, Respond([u EXCEPT !.log = Append(@, LogEntry(u.item, "write_failed"))],
                                             StatusText(500, "Failed to write file")))
    /\ UNCHANGED <<graph, uuid_n, dl>>

\* a stream error that removes every file of the blob directory, not the item's alone
UploadChunkErr_remove_all(r) ==
    /\ up[r].pc = "chunk"
    /\ fs' = {}
    /\ up' = Set(r, Respond([up[r] EXCEPT !.fsops = @ + 1, !.stream = "malformed",
                                          !.log = Append(@, LogEntry(up[r].item, "read_failed"))],
                            StatusText(400, "Failed to read upload")))
    /\ UNCHANGED <<graph, uuid_n, faults, dl>>

\* files.rs 786-790: chunk() gives Err, the stream is malformed inside a field
UploadChunkErr(r) ==
    /\ up[r].pc = "chunk"
    /\ fs' = FsRemove(fs, up[r].item.stored)
    /\ up' = Set(r, Respond([up[r] EXCEPT !.fsops = @ + 1, !.stream = "malformed",
                                          !.log = Append(@, LogEntry(up[r].item, "read_failed"))],
                            StatusText(400, "Failed to read upload")))
    /\ UNCHANGED <<graph, uuid_n, faults, dl>>

\* files.rs 785, 794-796: chunk() gives Ok(None); the file is flushed.  A failed
\* flush is the failure of the write of the last chunk, and is only logged.
UploadEndOfField(r) ==
    /\ up[r].pc = "chunk"
    /\ \/ /\ NoFault
          /\ fs' = fs
       \/ /\ Fault
          /\ up[r].item.last # <<>>
          /\ fs' = FsWrite(fs, up[r].item.stored,
                           SubSeq(up[r].item.received, 1,
                                  Len(up[r].item.received) - Len(up[r].item.last)))
    /\ up' = Set(r, [up[r] EXCEPT !.pc = "index"])
    /\ UNCHANGED <<graph, uuid_n, dl>>

\* an indexing step that rolls the physical write back when the update fails
UploadIndex_rollback(r) ==
    /\ up[r].pc = "index"
    /\ LET u == [up[r] EXCEPT !.queries = @ + 1]
           q == build_sparql_insert(u.item.uuid, u.item.safe, u.item.extension, u.item.file_size)
           next == [u EXCEPT !.pc = "next_field", !.item = NoItem,
                             !.uploaded_files = Append(@, u.item.safe)]
       IN  \/ /\ NoFault
              /\ StoreInsert(graph, q).some
              /\ graph' = StoreInsert(graph, q).v
              /\ fs' = fs
              /\ up' = Set(r, [next EXCEPT !.log = Append(@, LogEntry(u.item, "indexed"))])
           \/ /\ NoFault
              /\ ~StoreInsert(graph, q).some
              /\ graph' = graph
              /\ fs' = FsRemove(fs, u.item.stored)
              /\ up' = Set(r, [next EXCEPT !.log = Append(@, LogEntry(u.item, "update_refused"))])
           \/ /\ Fault
              /\ graph' = graph
              /\ fs' = FsRemove(fs, u.item.stored)
              /\ up' = Set(r, [next EXCEPT !.log = Append(@, LogEntry(u.item, "update_failed"))])
    /\ UNCHANGED <<uuid_n, dl>>

\* files.rs 798-837: the record is built and sent with send_sparql_update
\* (files.rs 75-93); the item is pushed on uploaded_files either way
UploadIndex(r) ==
    /\ up[r].pc = "index"
    /\ LET u == [up[r] EXCEPT !.queries = @ + 1]
           q == build_sparql_insert(u.item.uuid, u.item.safe, u.item.extension, u.item.file_size)
           next == [u EXCEPT !.pc = "next_field", !.item = NoItem,
                             !.uploaded_files = Append(@, u.item.safe)]
       IN  \/ /\ NoFault
              /\ StoreInsert(graph, q).some
              /\ graph' = StoreInsert(graph, q).v
              /\ up' = Set(r, [next EXCEPT !.log = Append(@, LogEntry(u.item, "indexed"))])
           \/ /\ NoFault
              /\ ~StoreInsert(graph, q).some
              /\ graph' = graph
              /\ up' = Set(r, [next EXCEPT !.log = Append(@, LogEntry(u.item, "update_refused"))])
           \/ /\ Fault
              /\ graph' = graph
              /\ up' = Set(r, [next EXCEPT !.log = Append(@, LogEntry(u.item, "update_failed"))])
    /\ fs' = fs
    /\ UNCHANGED <<uuid_n, dl>>

\* ------------------------------------------- the GET handlers of files.rs
\* the characters of a label in byte order
AsciiOrder ==
    <<"<BS>", "<TAB>", "<LF>", "<FF>", "<CR>", "\"", "'", "-", ".", "/", "0", "1", "2", "3", "4", "5", "6", "7", "8", "9", "A", "B", "C", "D", "E", "F", "G", "H", "I", "J", "K", "L", "M", "N", "O", "P", "Q", "R", "S", "T", "U", "V", "W", "X", "Y", "Z", "\\", "_", "a", "b", "c", "d", "e", "f", "g", "h", "i", "j", "k", "l", "m", "n", "o", "p", "q", "r", "s", "t", "u", "v", "w", "x", "y", "z">>
Ord(c) == CHOOSE i \in 1..Len(AsciiOrder) : AsciiOrder[i] = c

\* str::cmp: -1, 0 or 1
RECURSIVE CmpText(_, _)
CmpText(a, b) ==
    IF a = <<>> /\ b = <<>> THEN 0
    ELSE IF a = <<>> THEN -1
    ELSE IF b = <<>> THEN 1
    ELSE IF Ord(Head(a)) < Ord(Head(b)) THEN -1
    ELSE IF Ord(Head(a)) > Ord(Head(b)) THEN 1
    ELSE CmpText(Tail(a), Tail(b))

\* a comparison of two entries that takes the labels as they are written
CmpEntries_cased(a, b) ==
    IF a.is_dir /\ ~b.is_dir THEN -1
    ELSE IF ~a.is_dir /\ b.is_dir THEN 1
    ELSE CmpText(a.label, b.label)

\* files.rs 381-387: the comparison of two entries
CmpEntries(a, b) ==
    IF a.is_dir /\ ~b.is_dir THEN -1
    ELSE IF ~a.is_dir /\ b.is_dir THEN 1
    ELSE CmpText(ToLowercase(a.label), ToLowercase(b.label))

\* slice::sort_by, a stable sort
RECURSIVE InsertEntry(_, _)
InsertEntry(sorted, e) ==
    IF sorted = <<>> THEN <<e>>
    ELSE IF CmpEntries(e, Head(sorted)) < 0 THEN <<e>> \o sorted
    ELSE <<Head(sorted)>> \o InsertEntry(Tail(sorted), e)
RECURSIVE SortEntries(_, _)
SortEntries(sorted, rest) ==
    IF rest = <<>> THEN sorted
    ELSE SortEntries(InsertEntry(sorted, Head(rest)), Tail(rest))

upload_label == <<"u", "p", "l", "o", "a", "d">>

\* The filesystem graph holds the root directory "/", its child directory
\* "upload", and under it the file records.  The children of the directory a
\* label path leads to: None when the path leads to no directory.
DirChildren(g, labels) ==
    IF labels = <<>> THEN Some({[label |-> upload_label, is_dir |-> TRUE, storedAs |-> None]})
    ELSE IF labels = <<upload_label>>
         THEN Some({[label |-> rec.label, is_dir |-> FALSE, storedAs |-> Some(rec.storedAs)] : rec \in g})
    ELSE None

\* the labels of a query as the store reads them: None when one is no literal body
RECURSIVE QueryLabels(_)
QueryLabels(labels) ==
    IF labels = <<>> THEN Some(<<>>)
    ELSE LET l == ParseLiteral(EscapeQuotes(Head(labels)))
             rest == QueryLabels(Tail(labels))
         IN  IF l.some /\ rest.some THEN Some(<<l.v>> \o rest.v) ELSE None

\* files.rs 242-297 on a store that answers: Ok(b), or Err for a refused query
is_directory(g, path_parts) ==
    LET labels == QueryLabels(path_parts)
    IN  IF ~labels.some THEN [ok |-> FALSE, v |-> FALSE]
        ELSE [ok |-> TRUE, v |-> DirChildren(g, labels.v).some]

\* files.rs 300-365: the set of bindings (label, isDir) the store answers with
DirectoryBindings(g, path_parts) ==
    LET labels == QueryLabels(path_parts)
    IN  IF ~labels.some THEN None
        ELSE LET c == DirChildren(g, labels.v)
             IN  Some(IF c.some THEN {[label |-> e.label, is_dir |-> e.is_dir] : e \in c.v} ELSE {})

\* the orders in which the store may return a set of bindings
BindingOrders(bindings) ==
    {o \in [1..Cardinality(bindings) -> bindings] : \A e \in bindings : \E i \in DOMAIN o : o[i] = e}

\* files.rs 146-232 on a store that answers: the stored names bound by the
\* lookup of filename under dir_labels; None for a refused query
FileBindings(g, dir_labels, filename) ==
    LET labels == QueryLabels(dir_labels)
        name == ParseLiteral(EscapeQuotes(filename))
    IN  IF ~labels.some \/ ~name.some THEN None
        ELSE LET c == DirChildren(g, labels.v)
             IN  Some(IF c.some
                      THEN {e.storedAs.v : e \in {x \in c.v : x.label = name.v /\ x.storedAs.some}}
                      ELSE {})

GetIdle ==
    [pc |-> "idle", route |-> "", path |-> <<>>, headers |-> <<>>, stored |-> <<>>,
     resp |-> NoResp, queries |-> 0, fsops |-> 0]

\* files.rs 559
PathParts(path) == SelectSeq(SplitOn(path, "/"), LAMBDA x : x # <<>>)

\* a GET request arrives: /file, /file/{path}, /res/{uuid} or /upload
GetReceive(routes, hdrs, paths) ==
    /\ dl.pc = "idle"
    /\ \E route \in routes, h \in hdrs, path \in paths :
         /\ route \in {"file_root", "upload_page"} => path = <<>>
         /\ dl' = [GetIdle EXCEPT !.pc = "auth", !.route = route, !.headers = h, !.path = path]
    /\ UNCHANGED <<graph, fs, uuid_n, faults, up>>

\* an authentication step that tells a client whose credential is wrong so,
\* and sends the client without any to the login page
GetAuth_telling ==
    /\ dl.pc = "auth"
    /\ dl' = IF ~validate_token(dl.headers)
             THEN (IF extract_token_from_header(dl.headers).some \/ JarGet(dl.headers).some
                   THEN [dl EXCEPT !.pc = "responded", !.resp = StatusText(401, "Invalid token")]
                   ELSE [dl EXCEPT !.pc = "responded", !.resp = RedirectToLogin])
             ELSE IF dl.route = "upload_page"
             THEN [dl EXCEPT !.pc = "responded", !.resp = StatusText(200, "UPLOAD_HTML")]
             ELSE IF dl.route = "file_root" THEN [dl EXCEPT !.pc = "list"]
             ELSE IF dl.route = "file" THEN [dl EXCEPT !.pc = "is_directory"]
             ELSE [dl EXCEPT !.pc = "lookup_uuid"]
    /\ UNCHANGED <<graph, fs, uuid_n, faults, up>>

\* files.rs 527-530, 553-556, 636-639, 685-690
GetAuth ==
    /\ dl.pc = "auth"
    /\ dl' = IF ~validate_token(dl.headers)
             THEN [dl EXCEPT !.pc = "responded", !.resp = RedirectToLogin]
             ELSE IF dl.route = "upload_page"
             THEN [dl EXCEPT !.pc = "responded", !.resp = StatusText(200, "UPLOAD_HTML")]
             ELSE IF dl.route = "file_root" THEN [dl EXCEPT !.pc = "list"]
             ELSE IF dl.route = "file" THEN [dl EXCEPT !.pc = "is_directory"]
             ELSE [dl EXCEPT !.pc = "lookup_uuid"]
    /\ UNCHANGED <<graph, fs, uuid_n, faults, up>>

\* files.rs 562: is_directory(parts); anything but Ok(true) falls through
GetIsDirectory ==
    /\ dl.pc = "is_directory"
    /\ LET d == [dl EXCEPT !.queries = @ + 1]
           parts == PathParts(dl.path)
           not_dir == IF parts = <<>>
                      THEN [d EXCEPT !.pc = "responded", !.resp = DirectoryHtml(<<>>)]
                      ELSE [d EXCEPT !.pc = "lookup_file"]
       IN  \/ /\ NoFault
              /\ dl' = IF is_directory(graph, parts).ok /\ is_directory(graph, parts).v
                       THEN [d EXCEPT !.pc = "list"]
                       ELSE not_dir
           \/ /\ Fault
              /\ dl' = not_dir
    /\ UNCHANGED <<graph, fs, uuid_n, up>>

\* files.rs 533-543, 563-573: lookup_directory_contents
GetList ==
    /\ dl.pc = "list"
    /\ LET d == [dl EXCEPT !.queries = @ + 1, !.pc = "responded"]
           b == DirectoryBindings(graph, PathParts(dl.path))
       IN  \/ /\ NoFault
              /\ b.some
              /\ \E o \in BindingOrders(b.v) :
                     dl' = [d EXCEPT !.resp = DirectoryHtml(SortEntries(<<>>, o))]
           \/ /\ NoFault
              /\ ~b.some
              /\ dl' = [d EXCEPT !.resp = StatusText(500, "Failed to list directory")]
           \/ /\ Fault
              /\ dl' = [d EXCEPT !.resp = StatusText(500, "Failed to list directory")]
    /\ UNCHANGED <<graph, fs, uuid_n, up>>

\* files.rs 582-602: lookup_file(dir_labels, filename)
GetLookupFile ==
    /\ dl.pc = "lookup_file"
    /\ LET d == [dl EXCEPT !.queries = @ + 1]
           parts == PathParts(dl.path)
           b == FileBindings(graph, SubSeq(parts, 1, Len(parts) - 1), parts[Len(parts)])
       IN  \/ /\ NoFault
              /\ b.some
              /\ b.v # {}
              /\ \E name \in b.v : dl' = [d EXCEPT !.pc = "read", !.stored = name]
           \/ /\ NoFault
              /\ b.some
              /\ b.v = {}
              /\ dl' = [d EXCEPT !.pc = "responded", !.resp = StatusText(404, "Not found")]
           \/ /\ NoFault
              /\ ~b.some
              /\ dl' = [d EXCEPT !.pc = "responded", !.resp = StatusText(500, "Failed to lookup")]
           \/ /\ Fault
              /\ dl' = [d EXCEPT !.pc = "responded", !.resp = StatusText(500, "Failed to lookup")]
    /\ UNCHANGED <<graph, fs, uuid_n, up>>

\* files.rs 641-652: lookup_file_by_uuid(uuid)
GetLookupUuid ==
    /\ dl.pc = "lookup_uuid"
    /\ LET d == [dl EXCEPT !.queries = @ + 1]
           found == lookup_file_by_uuid(graph, dl.path)
       IN  \/ /\ NoFault
              /\ dl' = IF found.some
                       THEN [d EXCEPT !.pc = "read", !.stored = found.v]
                       ELSE [d EXCEPT !.pc = "responded", !.resp = StatusText(404, "File not found")]
           \/ /\ Fault
              /\ dl' = [d EXCEPT !.pc = "responded", !.resp = StatusText(500, "Failed to lookup file")]
    /\ UNCHANGED <<graph, fs, uuid_n, up>>

\* files.rs 604-626, 654-676: tokio::fs::read(FILES_DIR/stored_filename)
GetRead ==
    /\ dl.pc = "read"
    /\ LET d == [dl EXCEPT !.fsops = @ + 1, !.pc = "responded"]
       IN  \/ /\ NoFault
              /\ dl' = IF FsHas(fs, dl.stored)
                       THEN [d EXCEPT !.resp = FileBytes(FsRead(fs, dl.stored))]
                       ELSE [d EXCEPT !.resp = StatusText(500, "Failed to read file")]
           \/ /\ Fault
              /\ dl' = [d EXCEPT !.resp = StatusText(500, "Failed to read file")]
    /\ UNCHANGED <<graph, fs, uuid_n, up>>

\* the response is returned
GetDone ==
    /\ dl.pc = "responded"
    /\ dl' = GetIdle
    /\ UNCHANGED <<graph, fs, uuid_n, faults, up>>

FilesIdle ==
    /\ graph = {}
    /\ fs = {}
    /\ uuid_n = 0
    /\ faults = 0
    /\ up = [r \in UploadSlots |-> UploadIdle]
    /\ dl = GetIdle

\* ---------------------------------------------- lookup_directory_contents
\* files.rs 367-389 on a store that answers: the bindings, in the order the
\* store returned them, collected into entries and sorted
lookup_directory_contents(bindings) == SortEntries(<<>>, bindings)

NoListing == [children |-> {}, calls |-> <<>>]
ListIdle == ls = NoListing

\* files.rs 300-365: the query is sent and the store answers with the children
\* of the container in an order of its choosing; the container is not changed
ListCall(max_calls) ==
    /\ Len(ls.calls) < max_calls
    /\ \E o \in BindingOrders(ls.children) :
         ls' = [ls EXCEPT !.calls = Append(@, lookup_directory_contents(o))]

\* ------------------------------------------------------------ liqk-crypto
NoCrypto == [pc |-> "start", pk |-> 0, x |-> <<>>, enc |-> <<>>, intact |-> TRUE,
             sk |-> [label |-> "", id |-> 0], res |-> "", out |-> None]
CryptoIdle == cr = NoCrypto

\* ------------------------------------------------------------ login_submit
SESSION_MAX_AGE_SECS == 7776000

\* the session cookie name, without the "=" of the Cookie header
SessionCookieName == "oxigraph_gate_token"

NoLogin == [pc |-> "idle", token |-> <<>>, jar |-> <<>>, handler |-> "", resp |-> NoResp]

LoginIdle ==
    /\ secure_cookies = TRUE
    /\ lg = NoLogin

\* a response of login_submit: the Set-Cookie of the jar's delta, when there is one
LoginResponse(status, location, set_cookie, body) ==
    [status |-> status, location |-> location, set_cookie |-> set_cookie, body |-> body]

\* POST /gate/login arrives: the token field of the form, and the cookies sent
LoginReceive(tokens, jars) ==
    /\ lg.pc = "idle"
    /\ \E token \in tokens, jar \in jars :
           lg' = [NoLogin EXCEPT !.pc = "submit", !.token = token, !.jar = jar]
    /\ UNCHANGED secure_cookies

\* auth.rs 143-173
login_submit ==
    /\ lg.pc = "submit"
    /\ lg' = [lg EXCEPT !.pc = "responded", !.handler = "auth.rs",
                !.resp = IF constant_time_compare(lg.token, <<AccessToken>>)
                         THEN LoginResponse(303, "/",
                                  Some([name |-> SessionCookieName, value |-> lg.token,
                                        path |-> Some("/"), http_only |-> TRUE,
                                        same_site |-> Some("Strict"),
                                        max_age |-> Some(SESSION_MAX_AGE_SECS),
                                        secure |-> secure_cookies]),
                                  <<>>)
                         ELSE LoginResponse(200, "", None, <<"LOGIN_ERROR_HTML">>)]
    /\ UNCHANGED secure_cookies

\* main.rs 141-162: the login_submit that the router of main.rs 55-56 registers
login_submit_main ==
    /\ lg.pc = "submit"
    /\ lg' = [lg EXCEPT !.pc = "responded", !.handler = "main.rs",
                !.resp = IF lg.token = <<AccessToken>>
                         THEN LoginResponse(303, "/",
                                  Some([name |-> SessionCookieName, value |-> lg.token,
                                        path |-> Some("/"), http_only |-> TRUE,
                                        same_site |-> None,
                                        max_age |-> None,
                                        secure |-> FALSE]),
                                  <<>>)
                         ELSE LoginResponse(200, "", None, <<"LOGIN_ERROR_HTML">>)]
    /\ UNCHANGED secure_cookies

\* the response is returned
LoginDone ==
    /\ lg.pc = "responded"
    /\ lg' = NoLogin
    /\ UNCHANGED secure_cookies

\* ---- the name pipeline on its own: one multipart field's name
NameIdle ==
    /\ nm_pc = "start"
    /\ nm_original = <<>>
    /\ nm_safe = <<>>
    /\ nm_stored = <<>>

NameInit ==
    /\ policy = [pub |-> 0, tok |-> 0]
    /\ ProxyIdle
    /\ FilesIdle
    /\ nm_pc = "start"
    /\ nm_original \in SeqsUpTo(NameChars, MaxNameLen)
    /\ nm_safe = <<>>
    /\ nm_stored = <<>>
    /\ LoginIdle
    /\ ListIdle
    /\ CryptoIdle

\* files.rs 738-747: the item is skipped
NameReject ==
    /\ nm_pc = "start"
    /\ InvalidFilename(SafeFilename(nm_original))
    /\ nm_safe' = SafeFilename(nm_original)
    /\ nm_pc' = "skipped"
    /\ UNCHANGED <<nm_original, nm_stored, proxyVars, fileVars, loginVars, listVars, cryptoVars>>

\* files.rs 738-753: the item is accepted and its physical name chosen
NameAccept ==
    /\ nm_pc = "start"
    /\ ~InvalidFilename(SafeFilename(nm_original))
    /\ nm_safe' = SafeFilename(nm_original)
    /\ nm_stored' = StoredFilename("u1", ExtensionOf(SafeFilename(nm_original)))
    /\ nm_pc' = "named"
    /\ UNCHANGED <<nm_original, proxyVars, fileVars, loginVars, listVars, cryptoVars>>

NameNext == NameReject \/ NameAccept

SpecName == NameInit /\ [][NameNext]_vars

\* ---- the proxy under every path, query, credential, method and policy
ProxyInit ==
    /\ policy \in Policies
    /\ ProxyIdle
    /\ FilesIdle
    /\ NameIdle
    /\ LoginIdle
    /\ ListIdle
    /\ CryptoIdle

ProxyNext ==
    \/ (ProxyReceive(GateRequests \cup MethodRequests) /\ UNCHANGED <<fileVars, nameVars, loginVars, listVars, cryptoVars>>)
    \/ (ProxyRankCheck /\ UNCHANGED <<fileVars, nameVars, loginVars, listVars, cryptoVars>>)
    \/ (ProxyBuild /\ UNCHANGED <<fileVars, nameVars, loginVars, listVars, cryptoVars>>)
    \/ (ProxySendOk /\ UNCHANGED <<fileVars, nameVars, loginVars, listVars, cryptoVars>>)
    \/ (ProxySendErr /\ UNCHANGED <<fileVars, nameVars, loginVars, listVars, cryptoVars>>)
    \/ (ProxyDone /\ UNCHANGED <<fileVars, nameVars, loginVars, listVars, cryptoVars>>)

SpecProxy == ProxyInit /\ [][ProxyNext]_vars

\* ---- the proxy under every header list, the policy letting every request through
HeadersInit ==
    /\ policy = [pub |-> EDIT_RANK, tok |-> EDIT_RANK]
    /\ ProxyIdle
    /\ FilesIdle
    /\ NameIdle
    /\ LoginIdle
    /\ ListIdle
    /\ CryptoIdle

HeadersNext ==
    \/ (ProxyReceive(HeaderRequests) /\ UNCHANGED <<fileVars, nameVars, loginVars, listVars, cryptoVars>>)
    \/ (ProxyRankCheck /\ UNCHANGED <<fileVars, nameVars, loginVars, listVars, cryptoVars>>)
    \/ (ProxyBuild /\ UNCHANGED <<fileVars, nameVars, loginVars, listVars, cryptoVars>>)
    \/ (ProxySendOk /\ UNCHANGED <<fileVars, nameVars, loginVars, listVars, cryptoVars>>)
    \/ (ProxySendErr /\ UNCHANGED <<fileVars, nameVars, loginVars, listVars, cryptoVars>>)
    \/ (ProxyDone /\ UNCHANGED <<fileVars, nameVars, loginVars, listVars, cryptoVars>>)

SpecHeaders == HeadersInit /\ [][HeadersNext]_vars

\* ---- one upload request
\* the file names of the multipart fields
UploadNames ==
    { <<"a", ".", "b">>,
      <<".", "a">>,
      <<>>,
      <<"\\">> }
RoundTripNames ==
    UploadNames \cup
    { <<"a">>,
      <<"d", "/", "a">>,
      <<"a", ".", "\"">> }
Chunks == {<<0>>, <<1, 0>>}
GoodHeaders == <<Header(X_ACCESS_TOKEN, TRUE, <<AccessToken>>)>>
UuidPaths == {UuidText(Uuids[i]) : i \in 1..MaxUuids}

UploadInit ==
    /\ policy = [pub |-> 0, tok |-> EDIT_RANK]
    /\ ProxyIdle
    /\ FilesIdle
    /\ NameIdle
    /\ LoginIdle
    /\ ListIdle
    /\ CryptoIdle

UploadNext ==
    \/ (UploadReceive(1, {GoodHeaders, <<>>}) /\ UNCHANGED <<policy, proxyVars, nameVars, loginVars, listVars, cryptoVars>>)
    \/ (UploadAuth(1) /\ UNCHANGED <<policy, proxyVars, nameVars, loginVars, listVars, cryptoVars>>)
    \/ (UploadLookupDir(1) /\ UNCHANGED <<policy, proxyVars, nameVars, loginVars, listVars, cryptoVars>>)
    \/ (UploadMkdir(1) /\ UNCHANGED <<policy, proxyVars, nameVars, loginVars, listVars, cryptoVars>>)
    \/ (UploadEndOfStream(1) /\ UNCHANGED <<policy, proxyVars, nameVars, loginVars, listVars, cryptoVars>>)
    \/ (UploadMalformed(1) /\ UNCHANGED <<policy, proxyVars, nameVars, loginVars, listVars, cryptoVars>>)
    \/ (UploadNextField(1, {Some(n) : n \in UploadNames}, MaxFields) /\ UNCHANGED <<policy, proxyVars, nameVars, loginVars, listVars, cryptoVars>>)
    \/ (UploadCreate(1) /\ UNCHANGED <<policy, proxyVars, nameVars, loginVars, listVars, cryptoVars>>)
    \/ (UploadChunk(1, Chunks) /\ UNCHANGED <<policy, proxyVars, nameVars, loginVars, listVars, cryptoVars>>)
    \/ (UploadChunkErr(1) /\ UNCHANGED <<policy, proxyVars, nameVars, loginVars, listVars, cryptoVars>>)
    \/ (UploadEndOfField(1) /\ UNCHANGED <<policy, proxyVars, nameVars, loginVars, listVars, cryptoVars>>)
    \/ (UploadIndex(1) /\ UNCHANGED <<policy, proxyVars, nameVars, loginVars, listVars, cryptoVars>>)

SpecUpload == UploadInit /\ [][UploadNext]_vars

\* ---- an upload of one file, then downloads by identifier
SmallBatchFields == 1

RoundTripNext ==
    \/ (UploadReceive(1, {GoodHeaders}) /\ dl.pc = "idle" /\ UNCHANGED <<policy, proxyVars, nameVars, loginVars, listVars, cryptoVars>>)
    \/ (UploadAuth(1) /\ UNCHANGED <<policy, proxyVars, nameVars, loginVars, listVars, cryptoVars>>)
    \/ (UploadLookupDir(1) /\ UNCHANGED <<policy, proxyVars, nameVars, loginVars, listVars, cryptoVars>>)
    \/ (UploadMkdir(1) /\ UNCHANGED <<policy, proxyVars, nameVars, loginVars, listVars, cryptoVars>>)
    \/ (UploadEndOfStream(1) /\ UNCHANGED <<policy, proxyVars, nameVars, loginVars, listVars, cryptoVars>>)
    \/ (UploadMalformed(1) /\ UNCHANGED <<policy, proxyVars, nameVars, loginVars, listVars, cryptoVars>>)
    \/ (UploadNextField(1, {Some(n) : n \in RoundTripNames}, SmallBatchFields) /\ UNCHANGED <<policy, proxyVars, nameVars, loginVars, listVars, cryptoVars>>)
    \/ (UploadCreate(1) /\ UNCHANGED <<policy, proxyVars, nameVars, loginVars, listVars, cryptoVars>>)
    \/ (UploadChunk(1, Chunks) /\ UNCHANGED <<policy, proxyVars, nameVars, loginVars, listVars, cryptoVars>>)
    \/ (UploadChunkErr(1) /\ UNCHANGED <<policy, proxyVars, nameVars, loginVars, listVars, cryptoVars>>)
    \/ (UploadEndOfField(1) /\ UNCHANGED <<policy, proxyVars, nameVars, loginVars, listVars, cryptoVars>>)
    \/ (UploadIndex(1) /\ UNCHANGED <<policy, proxyVars, nameVars, loginVars, listVars, cryptoVars>>)
    \/ (GetReceive({"res"}, {GoodHeaders}, UuidPaths) /\ up[1].pc = "responded" /\ UNCHANGED <<policy, proxyVars, nameVars, loginVars, listVars, cryptoVars>>)
    \/ (GetAuth /\ UNCHANGED <<policy, proxyVars, nameVars, loginVars, listVars, cryptoVars>>)
    \/ (GetLookupUuid /\ UNCHANGED <<policy, proxyVars, nameVars, loginVars, listVars, cryptoVars>>)
    \/ (GetRead /\ UNCHANGED <<policy, proxyVars, nameVars, loginVars, listVars, cryptoVars>>)
    \/ (GetDone /\ UNCHANGED <<policy, proxyVars, nameVars, loginVars, listVars, cryptoVars>>)

SpecRoundTrip == UploadInit /\ [][RoundTripNext]_vars

\* ---- the file routes under every policy and credential: GET requests before
\* and after one upload request
GateHeaders ==
    CredentialHeaders \cup
    { <<Header(X_ACCESS_TOKEN, TRUE, <<WrongToken>>),
        Header(COOKIE, TRUE, <<TOKEN_COOKIE_NAME, AccessToken>>)>>,
      <<Header(X_ACCESS_TOKEN, TRUE, <<WrongToken>>),
        Header(AUTHORIZATION, TRUE, <<BearerPrefix, AccessToken>>)>> }
GateUploadHeaders ==
    { <<>>, GoodHeaders, <<Header(X_ACCESS_TOKEN, TRUE, <<WrongToken>>)>> }
GateNames == {<<"a", ".", "b">>, <<".", "a">>}
\* the upload directory (a listing), and a file in it
GatePaths ==
    { upload_label,
      upload_label \o <<"/", "a", ".", "b">> }
GateUuidPaths == {UuidText(Uuids[1])}

\* the public rank and the rank granted to the registered credential
GatePolicies == {[pub |-> 0, tok |-> r] : r \in Ranks}

GateInit ==
    /\ policy \in GatePolicies
    /\ ProxyIdle
    /\ FilesIdle
    /\ NameIdle
    /\ LoginIdle
    /\ ListIdle
    /\ CryptoIdle

GateNext ==
    \/ (UploadReceive(1, GateUploadHeaders) /\ dl.pc = "idle" /\ UNCHANGED <<policy, proxyVars, nameVars, loginVars, listVars, cryptoVars>>)
    \/ (UploadAuth(1) /\ UNCHANGED <<policy, proxyVars, nameVars, loginVars, listVars, cryptoVars>>)
    \/ (UploadLookupDir(1) /\ UNCHANGED <<policy, proxyVars, nameVars, loginVars, listVars, cryptoVars>>)
    \/ (UploadMkdir(1) /\ UNCHANGED <<policy, proxyVars, nameVars, loginVars, listVars, cryptoVars>>)
    \/ (UploadEndOfStream(1) /\ UNCHANGED <<policy, proxyVars, nameVars, loginVars, listVars, cryptoVars>>)
    \/ (UploadMalformed(1) /\ UNCHANGED <<policy, proxyVars, nameVars, loginVars, listVars, cryptoVars>>)
    \/ (UploadNextField(1, {Some(n) : n \in GateNames}, SmallBatchFields) /\ UNCHANGED <<policy, proxyVars, nameVars, loginVars, listVars, cryptoVars>>)
    \/ (UploadCreate(1) /\ UNCHANGED <<policy, proxyVars, nameVars, loginVars, listVars, cryptoVars>>)
    \/ (UploadChunk(1, {<<0>>}) /\ UNCHANGED <<policy, proxyVars, nameVars, loginVars, listVars, cryptoVars>>)
    \/ (UploadChunkErr(1) /\ UNCHANGED <<policy, proxyVars, nameVars, loginVars, listVars, cryptoVars>>)
    \/ (UploadEndOfField(1) /\ UNCHANGED <<policy, proxyVars, nameVars, loginVars, listVars, cryptoVars>>)
    \/ (UploadIndex(1) /\ UNCHANGED <<policy, proxyVars, nameVars, loginVars, listVars, cryptoVars>>)
    \/ (GetReceive({"file_root", "upload_page"}, GateHeaders, {<<>>}) /\ up[1].pc \in {"idle", "responded"} /\ UNCHANGED <<policy, proxyVars, nameVars, loginVars, listVars, cryptoVars>>)
    \/ (GetReceive({"file"}, GateHeaders, GatePaths) /\ up[1].pc \in {"idle", "responded"} /\ UNCHANGED <<policy, proxyVars, nameVars, loginVars, listVars, cryptoVars>>)
    \/ (GetReceive({"res"}, GateHeaders, GateUuidPaths) /\ up[1].pc \in {"idle", "responded"} /\ UNCHANGED <<policy, proxyVars, nameVars, loginVars, listVars, cryptoVars>>)
    \/ (GetAuth /\ UNCHANGED <<policy, proxyVars, nameVars, loginVars, listVars, cryptoVars>>)
    \/ (GetIsDirectory /\ UNCHANGED <<policy, proxyVars, nameVars, loginVars, listVars, cryptoVars>>)
    \/ (GetList /\ UNCHANGED <<policy, proxyVars, nameVars, loginVars, listVars, cryptoVars>>)
    \/ (GetLookupFile /\ UNCHANGED <<policy, proxyVars, nameVars, loginVars, listVars, cryptoVars>>)
    \/ (GetLookupUuid /\ UNCHANGED <<policy, proxyVars, nameVars, loginVars, listVars, cryptoVars>>)
    \/ (GetRead /\ UNCHANGED <<policy, proxyVars, nameVars, loginVars, listVars, cryptoVars>>)
    \/ (GetDone /\ UNCHANGED <<policy, proxyVars, nameVars, loginVars, listVars, cryptoVars>>)

SpecGate == GateInit /\ [][GateNext]_vars

\* ---- two upload requests with the same content, side by side
PairNext ==
    \E r \in UploadSlots :
        \/ (UploadReceive(r, {GoodHeaders}) /\ UNCHANGED <<policy, proxyVars, nameVars, loginVars, listVars, cryptoVars>>)
        \/ (UploadAuth(r) /\ UNCHANGED <<policy, proxyVars, nameVars, loginVars, listVars, cryptoVars>>)
        \/ (UploadLookupDir(r) /\ UNCHANGED <<policy, proxyVars, nameVars, loginVars, listVars, cryptoVars>>)
        \/ (UploadMkdir(r) /\ UNCHANGED <<policy, proxyVars, nameVars, loginVars, listVars, cryptoVars>>)
        \/ (UploadEndOfStream(r) /\ UNCHANGED <<policy, proxyVars, nameVars, loginVars, listVars, cryptoVars>>)
        \/ (UploadMalformed(r) /\ UNCHANGED <<policy, proxyVars, nameVars, loginVars, listVars, cryptoVars>>)
        \/ (UploadNextField(r, {Some(<<"a", ".", "b">>)}, SmallBatchFields) /\ UNCHANGED <<policy, proxyVars, nameVars, loginVars, listVars, cryptoVars>>)
        \/ (UploadCreate(r) /\ UNCHANGED <<policy, proxyVars, nameVars, loginVars, listVars, cryptoVars>>)
        \/ (UploadChunk(r, {<<0>>}) /\ UNCHANGED <<policy, proxyVars, nameVars, loginVars, listVars, cryptoVars>>)
        \/ (UploadChunkErr(r) /\ UNCHANGED <<policy, proxyVars, nameVars, loginVars, listVars, cryptoVars>>)
        \/ (UploadEndOfField(r) /\ UNCHANGED <<policy, proxyVars, nameVars, loginVars, listVars, cryptoVars>>)
        \/ (UploadIndex(r) /\ UNCHANGED <<policy, proxyVars, nameVars, loginVars, listVars, cryptoVars>>)

SpecUploadPair == UploadInit /\ [][PairNext]_vars

\* ---- the authenticator under every combination of the three credential sources
\* at most one header of each source, in the order the client sent them
AuthHeaderLists ==
    { x \o a \o c :
        x \in { <<>>,
                <<Header(X_ACCESS_TOKEN, TRUE, <<AccessToken>>)>>,
                <<Header(X_ACCESS_TOKEN, TRUE, <<WrongToken>>)>>,
                <<Header(X_ACCESS_TOKEN, FALSE, <<"\\xff">>)>> },
        a \in { <<>>,
                <<Header(AUTHORIZATION, TRUE, <<BearerPrefix, AccessToken>>)>>,
                <<Header(AUTHORIZATION, TRUE, <<BearerPrefix, WrongToken>>)>>,
                <<Header(AUTHORIZATION, TRUE, <<"Basic ", AccessToken>>)>> },
        c \in { <<>>,
                <<Header(COOKIE, TRUE, <<TOKEN_COOKIE_NAME, AccessToken>>)>>,
                <<Header(COOKIE, TRUE, <<TOKEN_COOKIE_NAME, WrongToken>>)>>,
                <<Header(COOKIE, TRUE, <<"theme=", AccessToken>>)>> } }

AuthNext ==
    \/ (GetReceive({"upload_page"}, AuthHeaderLists, {<<>>}) /\ UNCHANGED <<policy, proxyVars, nameVars, loginVars, listVars, cryptoVars>>)
    \/ (GetAuth /\ UNCHANGED <<policy, proxyVars, nameVars, loginVars, listVars, cryptoVars>>)
    \/ (GetDone /\ UNCHANGED <<policy, proxyVars, nameVars, loginVars, listVars, cryptoVars>>)

SpecAuth == UploadInit /\ [][AuthNext]_vars

\* ---- login submissions, with the secure-cookies switch on or off
LoginTokens == {<<AccessToken>>, <<WrongToken>>, <<>>, <<AccessToken, "x">>, <<"Tok">>}
\* the session cookies the browser sends with the submission
LoginJars == {<<>>, <<<<AccessToken>>>>, <<<<WrongToken>>>>, <<<<AccessToken>>, <<WrongToken>>>>}

LoginInit ==
    /\ policy = [pub |-> 0, tok |-> EDIT_RANK]
    /\ ProxyIdle
    /\ FilesIdle
    /\ NameIdle
    /\ secure_cookies \in BOOLEAN
    /\ lg = NoLogin
    /\ ListIdle
    /\ CryptoIdle

LoginNext ==
    \/ (LoginReceive(LoginTokens, LoginJars) /\ UNCHANGED <<proxyVars, fileVars, nameVars, listVars, cryptoVars>>)
    \/ (login_submit /\ UNCHANGED <<proxyVars, fileVars, nameVars, listVars, cryptoVars>>)
    \/ (login_submit_main /\ UNCHANGED <<proxyVars, fileVars, nameVars, listVars, cryptoVars>>)
    \/ (LoginDone /\ UNCHANGED <<proxyVars, fileVars, nameVars, listVars, cryptoVars>>)

SpecLogin == LoginInit /\ [][LoginNext]_vars

\* ---- lookup_directory_contents on every small container
MaxChildren == 3
MaxCalls == 2
ListLabels == {<<"a">>, <<"A">>, <<"B">>, <<"a", "b">>}
ListEntries == [label : ListLabels, is_dir : BOOLEAN]
ListInit ==
    /\ policy = [pub |-> 0, tok |-> 0]
    /\ ProxyIdle
    /\ FilesIdle
    /\ NameIdle
    /\ LoginIdle
    /\ CryptoIdle
    /\ \E c \in SUBSET ListEntries :
         /\ Cardinality(c) <= MaxChildren
         /\ ls = [children |-> c, calls |-> <<>>]

ListNext == ListCall(MaxCalls) /\ UNCHANGED <<proxyVars, fileVars, nameVars, loginVars, cryptoVars>>

SpecList == ListInit /\ [][ListNext]_vars

\* ---- GET /file/{path} after one upload request
\* the file names uploaded: a plain one, and one the store reads as an escape
ResolveNames == {<<"a">>, <<"\\", "n">>}
\* the paths asked for: the root, the upload directory, a file in it, a label no
\* child has, a first label no child has, a file taken for a directory, and
\* the label with the backslash
ResolvePaths ==
    { <<"/">>,
      upload_label,
      upload_label \o <<"/", "a">>,
      upload_label \o <<"/", "b">>,
      <<"x", "/", "a">>,
      upload_label \o <<"/", "a", "/", "a">>,
      upload_label \o <<"/", "\\", "n">> }

ResolveNext ==
    \/ (UploadReceive(1, {GoodHeaders}) /\ dl.pc = "idle" /\ UNCHANGED <<policy, proxyVars, nameVars, loginVars, listVars, cryptoVars>>)
    \/ (UploadAuth(1) /\ UNCHANGED <<policy, proxyVars, nameVars, loginVars, listVars, cryptoVars>>)
    \/ (UploadLookupDir(1) /\ UNCHANGED <<policy, proxyVars, nameVars, loginVars, listVars, cryptoVars>>)
    \/ (UploadMkdir(1) /\ UNCHANGED <<policy, proxyVars, nameVars, loginVars, listVars, cryptoVars>>)
    \/ (UploadEndOfStream(1) /\ UNCHANGED <<policy, proxyVars, nameVars, loginVars, listVars, cryptoVars>>)
    \/ (UploadMalformed(1) /\ UNCHANGED <<policy, proxyVars, nameVars, loginVars, listVars, cryptoVars>>)
    \/ (UploadNextField(1, {Some(n) : n \in ResolveNames}, SmallBatchFields) /\ UNCHANGED <<policy, proxyVars, nameVars, loginVars, listVars, cryptoVars>>)
    \/ (UploadCreate(1) /\ UNCHANGED <<policy, proxyVars, nameVars, loginVars, listVars, cryptoVars>>)
    \/ (UploadChunk(1, {<<0>>}) /\ UNCHANGED <<policy, proxyVars, nameVars, loginVars, listVars, cryptoVars>>)
    \/ (UploadChunkErr(1) /\ UNCHANGED <<policy, proxyVars, nameVars, loginVars, listVars, cryptoVars>>)
    \/ (UploadEndOfField(1) /\ UNCHANGED <<policy, proxyVars, nameVars, loginVars, listVars, cryptoVars>>)
    \/ (UploadIndex(1) /\ UNCHANGED <<policy, proxyVars, nameVars, loginVars, listVars, cryptoVars>>)
    \/ (GetReceive({"file"}, {GoodHeaders}, ResolvePaths) /\ up[1].pc \in {"idle", "responded"} /\ UNCHANGED <<policy, proxyVars, nameVars, loginVars, listVars, cryptoVars>>)
    \/ (GetAuth /\ UNCHANGED <<policy, proxyVars, nameVars, loginVars, listVars, cryptoVars>>)
    \/ (GetIsDirectory /\ UNCHANGED <<policy, proxyVars, nameVars, loginVars, listVars, cryptoVars>>)
    \/ (GetList /\ UNCHANGED <<policy, proxyVars, nameVars, loginVars, listVars, cryptoVars>>)
    \/ (GetLookupFile /\ UNCHANGED <<policy, proxyVars, nameVars, loginVars, listVars, cryptoVars>>)
    \/ (GetRead /\ UNCHANGED <<policy, proxyVars, nameVars, loginVars, listVars, cryptoVars>>)
    \/ (GetDone /\ UNCHANGED <<policy, proxyVars, nameVars, loginVars, listVars, cryptoVars>>)

SpecResolve == UploadInit /\ [][ResolveNext]_vars

\* ---- every gated route under requests that carry no credential or a wrong one
\* header lists without a valid credential: none, a wrong one in each of the
\* three places, one that is no text
NoGoodHeaders ==
    { <<>>,
      <<Header(X_ACCESS_TOKEN, TRUE, <<WrongToken>>)>>,
      <<Header(X_ACCESS_TOKEN, FALSE, <<"\\xff">>)>>,
      <<Header(AUTHORIZATION, TRUE, <<BearerPrefix, WrongToken>>)>>,
      <<Header(COOKIE, TRUE, <<TOKEN_COOKIE_NAME, WrongToken>>)>>,
      <<Header(<<"a", "c", "c", "e", "p", "t">>, TRUE, <<"v">>)>>,
      <<Header(<<"a", "c", "c", "e", "p", "t">>, TRUE, <<"v">>),
        Header(X_ACCESS_TOKEN, TRUE, <<WrongToken>>)>> }
NoGoodRequests ==
    [method : {"GET", "POST"},
     path : {<<"/", "q", "u", "e", "r", "y">>, update_prefix},
     query : {None}, headers : NoGoodHeaders,
     body : {[ok |-> TRUE, bytes |-> <<>>], [ok |-> TRUE, bytes |-> <<1, 2>>]}]

CredentialNext ==
    \/ (ProxyReceive(NoGoodRequests) /\ dl.pc = "idle" /\ UNCHANGED <<fileVars, nameVars, loginVars, listVars, cryptoVars>>)
    \/ (ProxyRankCheck /\ UNCHANGED <<fileVars, nameVars, loginVars, listVars, cryptoVars>>)
    \/ (ProxyBuild /\ UNCHANGED <<fileVars, nameVars, loginVars, listVars, cryptoVars>>)
    \/ (ProxySendOk /\ UNCHANGED <<fileVars, nameVars, loginVars, listVars, cryptoVars>>)
    \/ (ProxySendErr /\ UNCHANGED <<fileVars, nameVars, loginVars, listVars, cryptoVars>>)
    \/ (ProxyDone /\ UNCHANGED <<fileVars, nameVars, loginVars, listVars, cryptoVars>>)
    \/ (GetReceive({"file_root", "upload_page"}, NoGoodHeaders, {<<>>}) /\ px_pc = "idle" /\ UNCHANGED <<policy, proxyVars, nameVars, loginVars, listVars, cryptoVars>>)
    \/ (GetReceive({"file"}, NoGoodHeaders, GatePaths) /\ px_pc = "idle" /\ UNCHANGED <<policy, proxyVars, nameVars, loginVars, listVars, cryptoVars>>)
    \/ (GetReceive({"res"}, NoGoodHeaders, GateUuidPaths) /\ px_pc = "idle" /\ UNCHANGED <<policy, proxyVars, nameVars, loginVars, listVars, cryptoVars>>)
    \/ (GetAuth /\ UNCHANGED <<policy, proxyVars, nameVars, loginVars, listVars, cryptoVars>>)
    \/ (GetDone /\ UNCHANGED <<policy, proxyVars, nameVars, loginVars, listVars, cryptoVars>>)
    \/ (UploadReceive(1, NoGoodHeaders) /\ UNCHANGED <<policy, proxyVars, nameVars, loginVars, listVars, cryptoVars>>)
    \/ (UploadAuth(1) /\ UNCHANGED <<policy, proxyVars, nameVars, loginVars, listVars, cryptoVars>>)

\* the public rank varies; the registered credential is never presented
CredentialInit ==
    /\ policy \in {[pub |-> r, tok |-> EDIT_RANK] : r \in Ranks}
    /\ ProxyIdle
    /\ FilesIdle
    /\ NameIdle
    /\ LoginIdle
    /\ ListIdle
    /\ CryptoIdle

SpecCredential == CredentialInit /\ [][CredentialNext]_vars

\* -------------------------------------------- liqk-crypto: the primitives
\* The sizes of the file layout, scaled: the nonce (12 bytes), the X-Wing KEM
\* ciphertext (1120 bytes) and the Poly1305 tag (16 bytes).
NonceBytes == 2
KemCtBytes == 2
TagBytes == 1
NONCE_SIZE == NonceBytes
XWING_CT_SIZE == KemCtBytes
TAG_SIZE == TagBytes
XWING_SK_LABEL == "XWING SECRET KEY"
XWING_PK_LABEL == "XWING PUBLIC KEY"

\* A byte of a file is a record [kind, v]; v is a sequence of integers that
\* names what the byte was computed from, so that two bytes are equal exactly
\* when they were computed from the same values.
Byte(kind, v) == [kind |-> kind, v |-> v]

\* libcrux_kem::key_gen: the key pair of a seed, as the PEM files keygen writes
key_gen(seed) ==
    [sk |-> [label |-> XWING_SK_LABEL, id |-> seed],
     pk |-> [label |-> XWING_PK_LABEL, id |-> seed]]

\* the randomness of an encapsulation, and the nonces drawn
Rands == {1, 2}
Nonces == {1, 2}

\* PublicKey::encapsulate: the shared secret and the KEM ciphertext
Encapsulate(pk_id, r) ==
    [ss |-> pk_id * 10 + r,
     ct |-> [i \in 1..XWING_CT_SIZE |-> Byte("kem", <<pk_id, r, i>>)]]

\* Ct::decapsulate: the shared secret of the encapsulation when the ciphertext
\* was made for this key pair; otherwise a secret no encapsulation gave
\* (implicit rejection), written 0
Decapsulate(sk_id, ct) ==
    IF \E r \in Rands : ct = Encapsulate(sk_id, r).ct
    THEN (CHOOSE e \in {Encapsulate(sk_id, r) : r \in Rands} : e.ct = ct).ss
    ELSE 0

\* main.rs 243-250: HKDF-SHA256 of the shared secret, a key per secret
derive_key(shared_secret) == 1000 + shared_secret

\* the bytes of a nonce, and the nonce a run of bytes is (0: none that was drawn)
NonceSeq(n) == [i \in 1..NONCE_SIZE |-> Byte("nonce", <<n, i>>)]
NonceOf(bytes) ==
    IF \E n \in Nonces : bytes = NonceSeq(n)
    THEN CHOOSE n \in Nonces : bytes = NonceSeq(n)
    ELSE 0

\* ChaCha20Poly1305::encrypt: the masked plaintext followed by the tag
AeadEncrypt(key, n, x) ==
    [i \in 1..Len(x) |-> Byte("body", <<key, n, x[i], i>>)]
        \o [i \in 1..TAG_SIZE |-> Byte("tag", <<key, n, i>> \o x)]

\* ChaCha20Poly1305::decrypt: the plaintext when the text and the tag are those
\* of an encryption under this key and nonce, an error otherwise
AeadDecrypt(key, n, ct) ==
    IF Len(ct) < TAG_SIZE THEN None
    ELSE LET m == Len(ct) - TAG_SIZE
             x == [i \in 1..m |-> IF ct[i].kind = "body" /\ Len(ct[i].v) = 4
                                  THEN ct[i].v[3] ELSE 0]
         IN  IF ct = AeadEncrypt(key, n, x) THEN Some(x) ELSE None

CryptoOk(v) == [ok |-> TRUE, v |-> v]
CryptoErr == [ok |-> FALSE, v |-> <<>>]

\* main.rs 134-184: nonce || kem_ciphertext || symmetric_ciphertext
encrypt(pk, plaintext, r, nonce) ==
    IF pk.label # XWING_PK_LABEL THEN CryptoErr
    ELSE LET e == Encapsulate(pk.id, r)
             symmetric_key == derive_key(e.ss)
         IN  CryptoOk(NonceSeq(nonce) \o e.ct \o AeadEncrypt(symmetric_key, nonce, plaintext))

\* a decrypt that takes the symmetric ciphertext one byte late
decrypt_shifted(sk, encrypted) ==
    IF sk.label # XWING_SK_LABEL THEN CryptoErr
    ELSE IF Len(encrypted) < NONCE_SIZE + XWING_CT_SIZE THEN CryptoErr
    ELSE LET nonce_bytes == SubSeq(encrypted, 1, NONCE_SIZE)
             kem_ct_bytes == SubSeq(encrypted, NONCE_SIZE + 1, NONCE_SIZE + XWING_CT_SIZE)
             ciphertext == SubSeq(encrypted, NONCE_SIZE + XWING_CT_SIZE + 2, Len(encrypted))
             symmetric_key == derive_key(Decapsulate(sk.id, kem_ct_bytes))
             plaintext == AeadDecrypt(symmetric_key, NonceOf(nonce_bytes), ciphertext)
         IN  IF plaintext.some THEN CryptoOk(plaintext.v) ELSE CryptoErr

\* main.rs 186-241, up to the write of the output file
decrypt(sk, encrypted) ==
    IF sk.label # XWING_SK_LABEL THEN CryptoErr
    ELSE IF Len(encrypted) < NONCE_SIZE + XWING_CT_SIZE THEN CryptoErr
    ELSE LET nonce_bytes == SubSeq(encrypted, 1, NONCE_SIZE)
             kem_ct_bytes == SubSeq(encrypted, NONCE_SIZE + 1, NONCE_SIZE + XWING_CT_SIZE)
             ciphertext == SubSeq(encrypted, NONCE_SIZE + XWING_CT_SIZE + 1, Len(encrypted))
             symmetric_key == derive_key(Decapsulate(sk.id, kem_ct_bytes))
             plaintext == AeadDecrypt(symmetric_key, NonceOf(nonce_bytes), ciphertext)
         IN  IF plaintext.some THEN CryptoOk(plaintext.v) ELSE CryptoErr

\* ---- the commands
\* encrypt --pk --input --output, with the public key keygen wrote for a seed
CryptoEncrypt(seeds, plaintexts) ==
    /\ cr.pc = "start"
    /\ \E seed \in seeds, x \in plaintexts, r \in Rands, n \in Nonces :
         LET e == encrypt(key_gen(seed).pk, x, r, n)
         IN  /\ e.ok
             /\ cr' = [cr EXCEPT !.pc = "encrypted", !.pk = seed, !.x = x, !.enc = e.v]

\* the values a byte of the encrypted file can be changed to: one that no
\* encryption gives, and for a byte of the masked plaintext the byte of another
\* plaintext value
AlteredBytes(b) ==
    {Byte("altered", b.v)} \cup
    (IF b.kind = "body" THEN {Byte("body", [b.v EXCEPT ![3] = 1 - @])} ELSE {})

\* one byte of the encrypted file is altered
CryptoAlter ==
    /\ cr.pc = "encrypted"
    /\ cr.intact
    /\ \E i \in DOMAIN cr.enc :
         \E b \in AlteredBytes(cr.enc[i]) :
             cr' = [cr EXCEPT !.enc[i] = b, !.intact = FALSE]

\* the encrypted file is cut short
CryptoTruncate ==
    /\ cr.pc = "encrypted"
    /\ cr.intact
    /\ \E k \in 0..(Len(cr.enc) - 1) :
         cr' = [cr EXCEPT !.enc = SubSeq(cr.enc, 1, k), !.intact = FALSE]

\* a decrypt that creates the output file before it opens the ciphertext
CryptoDecrypt_create_first(sks) ==
    /\ cr.pc = "encrypted"
    /\ \E sk \in sks :
         LET d == decrypt(sk, cr.enc)
         IN  cr' = [cr EXCEPT !.pc = "decrypted", !.sk = sk,
                              !.res = IF d.ok THEN "ok" ELSE "err",
                              !.out = IF d.ok THEN Some(d.v) ELSE Some(<<>>)]

\* decrypt --sk --input --output: main.rs 186-241; fs::write(output_path) is
\* reached only with the plaintext in hand
CryptoDecrypt(sks) ==
    /\ cr.pc = "encrypted"
    /\ \E sk \in sks :
         LET d == decrypt(sk, cr.enc)
         IN  cr' = [cr EXCEPT !.pc = "decrypted", !.sk = sk,
                              !.res = IF d.ok THEN "ok" ELSE "err",
                              !.out = IF d.ok THEN Some(d.v) ELSE cr.out]

\* ---- liqk-crypto under every key pair, plaintext, alteration and truncation
MaxKeys == 2
MaxPlain == 2
KeySeeds == 1..MaxKeys
Plaintexts == SeqsUpTo({0, 1}, MaxPlain)
\* the key files decrypt is given: the secret key of each pair, and a public key
SkFiles == {key_gen(seed).sk : seed \in KeySeeds} \cup {key_gen(1).pk}

CryptoInit ==
    /\ policy = [pub |-> 0, tok |-> 0]
    /\ ProxyIdle
    /\ FilesIdle
    /\ NameIdle
    /\ LoginIdle
    /\ ListIdle
    /\ cr = NoCrypto

CryptoNext ==
    \/ (CryptoEncrypt(KeySeeds, Plaintexts) /\ UNCHANGED <<proxyVars, fileVars, nameVars, loginVars, listVars>>)
    \/ (CryptoAlter /\ UNCHANGED <<proxyVars, fileVars, nameVars, loginVars, listVars>>)
    \/ (CryptoTruncate /\ UNCHANGED <<proxyVars, fileVars, nameVars, loginVars, listVars>>)
    \/ (CryptoDecrypt(SkFiles) /\ UNCHANGED <<proxyVars, fileVars, nameVars, loginVars, listVars>>)

SpecCrypto == CryptoInit /\ [][CryptoNext]_vars

\* ================================================================ claims

\* C1: on the fallback route a request is forwarded to the upstream store only
\* if the resolved rank is at least the required rank; with a lower rank the
\* response is 403 and nothing is sent upstream for that inbound request.
C1_ForwardOnlyWithRank ==
    LET required == required_rank_for_path(px_req.path)
    IN  /\ (px_pc \in {"body", "send"} \/ px_sent # <<>>) => px_rank >= required
        /\ (px_pc \in {"body", "send", "responded"} /\ px_rank < required) =>
               /\ px_pc = "responded"
               /\ px_resp = TextResponse(403, "Access denied")
               /\ px_sent = <<>>

\* C1 witness: a request for /UPDATE resolved to rank 2 has been answered 403.
C1_Witness ==
    /\ px_pc = "responded"
    /\ px_req.path = <<"/", "U", "P", "D", "A", "T", "E">>
    /\ px_rank = 2
    /\ px_resp.status = 403
    /\ px_sent = <<>>

C4_CredentialHeaders ==
    { <<"c", "o", "o", "k", "i", "e">>,
      <<"a", "u", "t", "h", "o", "r", "i", "z", "a", "t", "i", "o", "n">>,
      <<"x", "-", "a", "c", "c", "e", "s", "s", "-", "t", "o", "k", "e", "n">> }
C4_ConnectionHeaders ==
    { <<"h", "o", "s", "t">>,
      <<"c", "o", "n", "n", "e", "c", "t", "i", "o", "n">>,
      <<"k", "e", "e", "p", "-", "a", "l", "i", "v", "e">>,
      <<"p", "r", "o", "x", "y", "-", "a", "u", "t", "h", "e", "n", "t", "i", "c", "a", "t", "e">>,
      <<"p", "r", "o", "x", "y", "-", "a", "u", "t", "h", "o", "r", "i", "z", "a", "t", "i", "o", "n">>,
      <<"t", "e">>,
      <<"t", "r", "a", "i", "l", "e", "r", "s">>,
      <<"t", "r", "a", "n", "s", "f", "e", "r", "-", "e", "n", "c", "o", "d", "i", "n", "g">>,
      <<"u", "p", "g", "r", "a", "d", "e">> }
C4_Denied(h) == ToLowercase(h.name) \in C4_CredentialHeaders \cup C4_ConnectionHeaders

\* C4: the request built for (and sent to) the upstream store holds no header
\* whose name is, without regard to case, a credential header or a
\* connection-management header of the deny-list, and holds every other inbound
\* header that has a text value.
C4_HeadersFiltered ==
    \A out \in {px_sent[i] : i \in 1..Len(px_sent)} \cup (IF px_pc = "send" THEN {px_out} ELSE {}) :
        /\ \A i \in 1..Len(out.headers) : ~C4_Denied(out.headers[i])
        /\ out.headers = SelectSeq(px_req.headers, LAMBDA h : h.text /\ ~C4_Denied(h))

\* C4 witness: a request with headers Cookie and accept was sent upstream with accept only.
C4_Witness ==
    /\ Len(px_sent) = 1
    /\ px_req.headers = <<Header(<<"C", "o", "o", "k", "i", "e">>, TRUE, <<"v">>), Header(<<"a", "c", "c", "e", "p", "t">>, TRUE, <<"v">>)>>
    /\ px_sent[1].headers = <<Header(<<"a", "c", "c", "e", "p", "t">>, TRUE, <<"v">>)>>

\* What follows the first "." of s, when s holds one.
RECURSIVE AfterFirstDot(_)
AfterFirstDot(s) ==
    IF s = <<>> THEN None
    ELSE IF Head(s) = "." THEN Some(Tail(s))
    ELSE AfterFirstDot(Tail(s))

\* What follows the last "." of s, when s holds one.
RECURSIVE AfterLastDot(_)
AfterLastDot(s) ==
    LET r == AfterFirstDot(s)
    IN  IF ~r.some THEN None
        ELSE IF AfterFirstDot(r.v).some THEN AfterLastDot(r.v)
        ELSE r

\* C9 (as stated): the physical name of an accepted item is
\* {identifier}.{extension}, the extension being the last dot-delimited suffix
\* of the name, and "bin" when that suffix is absent or empty.
C9_LastSuffixOrBin ==
    nm_pc = "named" =>
        LET e == AfterLastDot(nm_safe)
        IN  nm_stored = <<"u1", ".">> \o (IF e.some /\ e.v # <<>> THEN e.v ELSE bin)

\* C9 (amended): the physical name of an accepted item is {identifier}.{extension},
\* the extension being everything after the FIRST dot of the sanitized name
\* (possibly empty, possibly holding dots), and "bin" only when the name holds no dot.
C9_AfterFirstDotOrBin ==
    nm_pc = "named" =>
        LET e == AfterFirstDot(nm_safe)
        IN  nm_stored = <<"u1", ".">> \o (IF e.some THEN e.v ELSE bin)

\* C9 witness: an accepted name with two dots (a.b.a) has been given its physical name.
C9_Witness ==
    /\ nm_pc = "named"
    /\ nm_safe = <<"a", ".", "b", ".", "a">>
    /\ nm_stored = <<"u1", ".", "b", ".", "a">>

\* the last entry of the log of an upload request
LastLog(u) == u.log[Len(u.log)]

C6_RoundTrip ==
    LET u == up[1]
    IN  ( /\ u.pc = "responded"
          /\ u.resp.status = 200
          /\ u.stream = "end"
          /\ Len(u.log) = 1
          /\ faults = 0
          /\ dl.pc = "responded"
          /\ dl.route = "res"
          /\ dl.path = UuidText(u.log[1].uuid) )
        => dl.resp = FileBytes(u.log[1].received)

\* an index step of upload request 1 in which the record failed to commit
C7_IndexFailed ==
    /\ up[1].pc = "index"
    /\ Len(up'[1].log) = Len(up[1].log) + 1
    /\ LastLog(up'[1]).st \in {"update_refused", "update_failed"}

\* C7: when the graph record of an item fails to commit after its bytes were
\* written, the physical files are left as they are (the item's file is still
\* there), the request is not answered, and the loop goes on to the next item.
C7_IndexFailureKeepsFile ==
    [][ C7_IndexFailed =>
            /\ fs' = fs
            /\ FsHas(fs', up[1].item.stored)
            /\ graph' = graph
            /\ up'[1].pc = "next_field"
            /\ up'[1].resp = NoResp ]_vars

\* C7 witness: the record of the first item was not committed because the
\* store was unreachable, its file is on disk with its bytes, and the second
\* item of the batch was written and indexed.
C7_Witness ==
    LET u == up[1]
    IN  /\ Len(u.log) = 2
        /\ u.log[1].st = "update_failed"
        /\ u.log[1].received # <<>>
        /\ FsHas(fs, u.log[1].stored)
        /\ FsRead(fs, u.log[1].stored) = u.log[1].received
        /\ u.log[2].st = "indexed"
        /\ \E rec \in graph : rec.uuid = u.log[2].uuid

C10_EmptyOrDotfile(safe) == safe = <<>> \/ Head(safe) = "."

\* a step of upload request 1 that takes the next named field of the batch
C10_FieldTaken ==
    /\ up[1].pc = "next_field"
    /\ up'[1].nfields = up[1].nfields + 1
    /\ ~(Len(up'[1].log) = Len(up[1].log) + 1 /\ LastLog(up'[1]).st = "no_file_name")

\* C10: an item whose sanitized base name is empty or begins with a dot is
\* rejected for that item only: the step creates no physical file, emits no
\* graph record, draws no identifier, lists nothing as uploaded and leaves the
\* request in its loop, ready for the next item; any other named item goes on
\* to be written.
C10_RejectedItemOnly ==
    [][ C10_FieldTaken =>
            LET rejected == up'[1].pc # "create"
                safe == IF rejected THEN LastLog(up'[1]).safe ELSE up'[1].item.safe
            IN  /\ rejected <=> C10_EmptyOrDotfile(safe)
                /\ rejected =>
                       /\ LastLog(up'[1]).st = "invalid"
                       /\ fs' = fs
                       /\ graph' = graph
                       /\ uuid_n' = uuid_n
                       /\ up'[1].uploaded_files = up[1].uploaded_files
                       /\ up'[1].pc = "next_field"
                       /\ up'[1].resp = NoResp ]_vars

\* C10 witness: the first item of a batch, a dotfile, was rejected and left
\* nothing behind; the second item was written and indexed.
C10_Witness ==
    LET u == up[1]
    IN  /\ Len(u.log) = 2
        /\ u.log[1].st = "invalid"
        /\ u.log[1].safe = <<".", "a">>
        /\ u.log[2].st = "indexed"
        /\ u.uploaded_files = <<u.log[2].safe>>
        /\ Cardinality(fs) = 1
        /\ Cardinality(graph) = 1
        /\ FsHas(fs, u.log[2].stored)

\* the rank the rank resolver gives the credential of a request
C2_Rank(headers) == get_access_rank_iri(policy, TRUE, headers)

\* C2 (as stated): GET /file, GET /file/{path} and GET /res/{id} answer a
\* listing or bytes only when the rank of the presented credential is at least
\* 1 (view), and POST /upload touches the blob directory only when it is at
\* least 3 (edit).
C2_RankThresholds ==
    /\ ( /\ dl.pc = "responded"
         /\ dl.route \in {"file_root", "file", "res"}
         /\ dl.resp.status = 200 ) => C2_Rank(dl.headers) >= VIEW_RANK
    /\ (up[1].pc # "idle" /\ up[1].fsops > 0) => C2_Rank(up[1].headers) >= EDIT_RANK

\* no credential the authenticator looks at is the access token
C3_CheckFails(headers) ==
    \A c \in {extract_token_from_header(headers), JarGet(headers)} :
        ~(c.some /\ c.v = <<AccessToken>>)

C3_Refused(q) ==
    (q.pc \notin {"idle", "auth"} /\ C3_CheckFails(q.headers)) =>
        /\ q.pc = "responded"
        /\ q.resp = RedirectToLogin
        /\ q.queries = 0
        /\ q.fsops = 0

\* C3: on the file, resource and upload routes a request whose credential
\* check fails is answered with the redirect to the login page, and the
\* handler has by then sent no upstream query and touched no blob file.
C3_RedirectBeforeAnyAccess == C3_Refused(up[1]) /\ C3_Refused(dl)

\* C3 witness: with a file uploaded and indexed, GET /res/{its id} carrying a
\* wrong token was answered with the redirect, without a query or a read.
C3_Witness ==
    /\ graph # {}
    /\ fs # {}
    /\ dl.pc = "responded"
    /\ dl.route = "res"
    /\ \E rec \in graph : dl.path = UuidText(rec.uuid)
    /\ dl.headers = <<Header(X_ACCESS_TOKEN, TRUE, <<WrongToken>>)>>
    /\ dl.resp = RedirectToLogin
    /\ dl.queries = 0
    /\ dl.fsops = 0

\* what the client sent in an upload request: the names and bytes of its fields
C8_Sent(u) == [i \in 1..Len(u.log) |-> <<u.log[i].original, u.log[i].received>>]

\* C8 (as stated): of two uploads of the same content read to the end of the
\* stream, one in which a graph record failed to commit after the write and
\* one in which every record committed, the responses differ.
C8_FailureSurfaced ==
    ( /\ up[1].pc = "responded" /\ up[1].stream = "end"
      /\ up[2].pc = "responded" /\ up[2].stream = "end"
      /\ C8_Sent(up[1]) = C8_Sent(up[2])
      /\ \E i \in 1..Len(up[1].log) : up[1].log[i].st = "update_failed"
      /\ \A i \in 1..Len(up[2].log) : up[2].log[i].st = "indexed" )
    => up[1].resp # up[2].resp

\* the value of the first header of that name, when there is one
C11_Value(headers, lname) ==
    LET h == HeaderGet(headers, lname)
    IN  IF h.some THEN Some(h.v.value) ELSE None

\* the one candidate of the stated order of preference: the X-Access-Token
\* header when present, else the Bearer Authorization header when present,
\* else the session cookie
C11_SingleCandidate(headers) ==
    LET x == C11_Value(headers, X_ACCESS_TOKEN)
        a == C11_Value(headers, AUTHORIZATION)
        c == C11_Value(headers, COOKIE)
    IN  IF x.some THEN x
        ELSE IF a.some /\ a.v # <<>> /\ Head(a.v) = BearerPrefix THEN Some(Tail(a.v))
        ELSE IF c.some /\ c.v # <<>> /\ Head(c.v) = TOKEN_COOKIE_NAME THEN Some(Tail(c.v))
        ELSE None

C11_Accepted == dl.resp # RedirectToLogin

\* C11 (as stated): the authenticator decides on one candidate credential
\* alone, the X-Access-Token header, else the Bearer Authorization header,
\* else the session cookie, a later source being used only when every earlier
\* one is absent.
C11_OneCandidateDecides ==
    dl.pc = "responded" =>
        (C11_Accepted <=> C11_SingleCandidate(dl.headers) = Some(<<AccessToken>>))

\* C11 (amended): the authenticator evaluates at most two candidates.  The
\* header candidate is the X-Access-Token header when it is present with a text
\* value, else the token of a Bearer Authorization header; the session cookie
\* is a second candidate, evaluated whenever the header candidate is absent or
\* is not the access token.  The request is accepted exactly when one of the
\* two is the access token.
C11_HeaderThenCookie ==
    dl.pc = "responded" =>
        LET x == HeaderGet(dl.headers, X_ACCESS_TOKEN)
            a == HeaderGet(dl.headers, AUTHORIZATION)
            c == HeaderGet(dl.headers, COOKIE)
            bearer == IF a.some /\ a.v.text /\ a.v.value # <<>> /\ Head(a.v.value) = BearerPrefix
                      THEN Some(Tail(a.v.value)) ELSE None
            from_header == IF x.some /\ x.v.text THEN Some(x.v.value) ELSE bearer
            from_cookie == IF c.some /\ c.v.text /\ c.v.value # <<>> /\ Head(c.v.value) = TOKEN_COOKIE_NAME
                           THEN Some(Tail(c.v.value)) ELSE None
        IN  C11_Accepted <=> (from_header = Some(<<AccessToken>>) \/ from_cookie = Some(<<AccessToken>>))

\* C11 witness: a request with a wrong X-Access-Token header and the access
\* token in the session cookie was accepted.
C11_Witness ==
    /\ dl.pc = "responded"
    /\ dl.headers = <<Header(X_ACCESS_TOKEN, TRUE, <<WrongToken>>),
                      Header(COOKIE, TRUE, <<TOKEN_COOKIE_NAME, AccessToken>>)>>
    /\ dl.resp = StatusText(200, "UPLOAD_HTML")

\* C12 (as stated): a login submission sets a session cookie if and only if
\* the submitted credential is the access token; the cookie has path /, is
\* HTTP-only, SameSite=Strict, has max-age 7,776,000 seconds, and carries the
\* Secure flag exactly when the secure-cookies switch is on; a rejected
\* submission sets no cookie and renders the error view.
C12_SessionCookie ==
    lg.pc = "responded" =>
        LET accepted == lg.token = <<AccessToken>>
            c == lg.resp.set_cookie
        IN  /\ c.some <=> accepted
            /\ c.some =>
                   /\ c.v.name = "oxigraph_gate_token"
                   /\ c.v.value = lg.token
                   /\ c.v.path = Some("/")
                   /\ c.v.http_only
                   /\ c.v.same_site = Some("Strict")
                   /\ c.v.max_age = Some(7776000)
                   /\ c.v.secure = secure_cookies
            /\ ~accepted => lg.resp.body = <<"LOGIN_ERROR_HTML">>

\* the verbs that change the store
C13_MutatingVerbs == {"POST", "PUT", "DELETE", "PATCH"}

\* C13 (as stated): on the pass-through route a request with a mutating verb
\* is forwarded only with edit rank (at least 3), a request with another verb
\* only with view rank (at least 1).
C13_VerbDecidesRank ==
    px_sent # <<>> =>
        px_rank >= (IF px_req.method \in C13_MutatingVerbs THEN EDIT_RANK ELSE VIEW_RANK)

\* the path begins with /update, whatever the case of its letters
C14_LooksMutating(path) ==
    LET lower == <<"/", "u", "p", "d", "a", "t", "e">>
        upper == <<"/", "U", "P", "D", "A", "T", "E">>
    IN  /\ Len(path) >= 7
        /\ \A i \in 1..7 : path[i] \in {lower[i], upper[i]}

\* C14: on the fallback route the rank check passes exactly when the resolved
\* rank is at least 3 for a path beginning with /update, compared without
\* regard to case, and at least 1 for every other path, whatever the query
\* string is.
C14_PathDecidesRank ==
    px_pc \in {"body", "send", "responded"} =>
        LET required == IF C14_LooksMutating(px_req.path) THEN 3 ELSE 1
            denied == px_resp = TextResponse(403, "Access denied")
        IN  denied <=> px_rank < required

\* C14 witness: /Update/x?update=x resolved to rank 2 was answered 403.
C14_Witness ==
    /\ px_pc = "responded"
    /\ px_req.path = <<"/", "U", "p", "d", "a", "t", "e", "/", "x">>
    /\ px_req.query = Some(<<"u", "p", "d", "a", "t", "e", "=", "x">>)
    /\ px_rank = 2
    /\ px_resp = TextResponse(403, "Access denied")

\* ---- C15
\* the upstream headers a verbatim relay would carry: those outside the deny-list
C15_Kept(headers) == SelectSeq(headers, LAMBDA h : should_forward_header(h.name))

C15_Received ==
    /\ px_pc = "responded"
    /\ px_up # NoResponse
    /\ px_up.body_ok

\* C15: for every upstream response received by the proxy, the relayed response
\* has the same status, the same body, and exactly the upstream headers outside
\* the deny-list, name and value unchanged, every occurrence of a repeated name
\* included.
C15_RelayedVerbatim ==
    C15_Received =>
        /\ px_resp.status = px_up.status
        /\ px_resp.body = px_up.body
        /\ px_resp.headers = C15_Kept(px_up.headers)

\* ---- C16
\* the send failed: a request went out and no upstream response came back
C16_SendFailed ==
    /\ px_pc = "responded"
    /\ px_sent # <<>>
    /\ px_up = NoResponse

\* an upstream response was received and relayed
C16_Relayed ==
    /\ px_pc = "responded"
    /\ px_up # NoResponse
    /\ px_up.body_ok

\* C16 as stated: a transport failure of the send is answered 502, a status no
\* relayed upstream response carries, and one inbound request causes exactly
\* one send attempt.
C16_DistinctStatus ==
    /\ C16_SendFailed => (px_resp.status = 502 /\ Len(px_sent) = 1)
    /\ C16_Relayed => px_resp.status # 502
    /\ Len(px_sent) <= 1

\* C16 amended: a transport failure of the send is answered with the gate's own
\* 502 text response, which carries no upstream header or body, and one inbound
\* request causes exactly one send attempt; a relayed upstream response may
\* carry status 502 as well.
C16_BadGatewayOnce ==
    /\ C16_SendFailed =>
          /\ px_resp = TextResponse(502, "Proxy request failed")
          /\ Len(px_sent) = 1
    /\ C16_Relayed => (px_resp.status = px_up.status /\ Len(px_sent) = 1)
    /\ Len(px_sent) <= 1

C16_Witness ==
    /\ C16_SendFailed
    /\ px_resp.status = 502
    /\ px_sent = <<px_out>>

\* ---- C17
\* an upstream query of the rank resolution failed and the rank check is over
C17_QueryFailed ==
    /\ px_store = "failed"
    /\ px_pc # "rank"

C18_Members(entries) == {entries[i] : i \in DOMAIN entries}

\* containers before files and, within each group, labels ascending when case is ignored
C18_Ordered(entries) ==
    \A i, j \in DOMAIN entries :
        i < j =>
            /\ entries[j].is_dir => entries[i].is_dir
            /\ entries[i].is_dir = entries[j].is_dir =>
                   CmpText(ToLowercase(entries[i].label), ToLowercase(entries[j].label)) <= 0

\* C18: list_children returns the immediate children of the container, every
\* container before every file and, within each group, in ascending
\* case-insensitive order of label.
C18_SortedListing ==
    \A k \in DOMAIN ls.calls :
        /\ C18_Members(ls.calls[k]) = ls.children
        /\ Len(ls.calls[k]) = Cardinality(ls.children)
        /\ C18_Ordered(ls.calls[k])

\* a listing of a container that holds a file, a directory and labels of both cases
C18_Witness ==
    /\ ls.calls # <<>>
    /\ Len(ls.calls[1]) = 3
    /\ ~ls.calls[1][3].is_dir
    /\ ls.calls[1][1].is_dir
    /\ ls.calls[1][2].label = <<"a">>
    /\ ls.calls[1][3].label = <<"B">>

\* ---- C19
\* C19: idempotence of listing: two calls in succession on an unchanged
\* container return the same ordered sequence, whatever order the store returns
\* the bindings in on each call.
C19_SameSequence ==
    \A i, j \in DOMAIN ls.calls : ls.calls[i] = ls.calls[j]

\* ---- C20
\* a chain of containment edges from the root whose labels are exactly the
\* labels asked for, ending at a container or at a file
C20_Chain(g, parts) ==
    \/ DirChildren(g, parts).some
    \/ /\ parts # <<>>
       /\ LET c == DirChildren(g, SubSeq(parts, 1, Len(parts) - 1))
          IN  c.some /\ \E e \in c.v : e.label = parts[Len(parts)]

\* a GET /file/{path} request of an authenticated client was answered
C20_Answered ==
    /\ dl.pc = "responded"
    /\ dl.route = "file"
    /\ validate_token(dl.headers)

\* C20: GET /file/{path} returns file bytes or a listing only if a chain of
\* containment edges, from the root and with exactly the labels of the path in
\* order, exists for the whole path; it returns 404 when some step has no
\* matching child and every upstream query succeeded.
C20_ChainDecides ==
    C20_Answered =>
        LET parts == PathParts(dl.path)
        IN  /\ dl.resp.status = 200 => C20_Chain(graph, parts)
            /\ (~C20_Chain(graph, parts) /\ faults = 0 /\ QueryLabels(parts).some)
                   => dl.resp = StatusText(404, "Not found")

\* ---- C21
\* a /file or /res request was answered, and a query of it failed: the request
\* came before any upload, so the fault counted is one of its own
C21_QueryFailed ==
    /\ dl.pc = "responded"
    /\ dl.route \in {"file", "res"}
    /\ validate_token(dl.headers)
    /\ up[1].pc = "idle"
    /\ dl.fsops = 0
    /\ faults > 0

\* C21: whenever an upstream query issued while serving a /file or /res request
\* fails, the response is a 5xx status, never 404 or 200.
C21_FailureIs5xx ==
    C21_QueryFailed => dl.resp.status >= 500

\* ---- C22
\* C22: when the multipart stream of an upload is malformed, between two fields
\* or inside a field, the request is answered 400 and the physical file the
\* failing item was writing is removed before the response.
C22_MalformedIs400 ==
    LET u == up[1]
    IN  (u.pc = "responded" /\ u.stream = "malformed") =>
            /\ u.resp.status = 400
            /\ (u.log # <<>> /\ LastLog(u).st = "read_failed") => ~FsHas(fs, LastLog(u).stored)

\* ---- C23
\* the header list carries a credential, and no valid one
C23_Wrong(headers) ==
    /\ ~validate_token(headers)
    /\ extract_token_from_header(headers).some \/ JarGet(headers).some

\* the same header list without the headers that carry credentials
C23_Bare(headers) ==
    SelectSeq(headers, LAMBDA h : ToLowercase(h.name) \notin {X_ACCESS_TOKEN, AUTHORIZATION, COOKIE})

\* the response of the file routes to the request without the credential
C23_BareFileResponse(headers) ==
    IF ~validate_token(C23_Bare(headers)) THEN RedirectToLogin ELSE NoResp

C24_RoundTripCase ==
    /\ cr.pc = "decrypted"
    /\ cr.intact
    /\ cr.sk = key_gen(cr.pk).sk

\* C24: decrypt(sk, encrypt(pk, x)) writes exactly x for every key pair
\* (sk, pk) produced by keygen and every plaintext x, the empty file included.
C24_RoundTrip ==
    C24_RoundTripCase => (cr.res = "ok" /\ cr.out = Some(cr.x))

\* the round trip of the empty file, and of a file of MaxPlain bytes
C24_Witness ==
    /\ C24_RoundTripCase
    /\ cr.x = <<>>
    /\ cr.out = Some(<<>>)
    /\ cr.res = "ok"

\* ---- C25
\* the lengths of the parts of the encrypted file
C25_MinSize == NONCE_SIZE + XWING_CT_SIZE

\* decrypt was run with a key that is not the pair's secret key, or on a file
\* that was altered or cut short
C25_BadCase ==
    /\ cr.pc = "decrypted"
    /\ \/ cr.sk # key_gen(cr.pk).sk
       \/ ~cr.intact
       \/ Len(cr.enc) < C25_MinSize

\* C25: decrypt returns an error and writes no output file when the secret key
\* does not belong to the key pair used to encrypt, when any byte of the
\* encrypted file has been altered, or when the encrypted file is shorter than
\* the nonce plus the KEM ciphertext.
C25_ErrorAndNoOutput ==
    C25_BadCase => (cr.res = "err" /\ cr.out = None)

\* the pair's own secret key on a file whose last byte, a byte of the tag, was altered
C25_Witness ==
    /\ C25_BadCase
    /\ cr.sk = key_gen(cr.pk).sk
    /\ Len(cr.enc) = C25_MinSize + Len(cr.x) + TAG_SIZE
    /\ cr.enc[Len(cr.enc)].kind = "altered"
    /\ cr.res = "err"

\* ---- C26
\* the items request r created: those of its log and the one in flight
C26_Items(u) ==
    {[uuid |-> u.log[i].uuid, stored |-> u.log[i].stored] : i \in {j \in DOMAIN u.log : u.log[j].uuid # ""}}
        \cup (IF u.item.uuid # "" THEN {[uuid |-> u.item.uuid, stored |-> u.item.stored]} ELSE {})

\* the bytes request r received: those of its logged items and of the one in flight
RECURSIVE C26_LoggedBytes(_)
C26_LoggedBytes(log) ==
    IF log = <<>> THEN 0 ELSE Len(Head(log).received) + C26_LoggedBytes(Tail(log))
C26_OwnBytes(u) ==
    C26_LoggedBytes(u.log) + (IF u.pc \in {"create", "chunk", "index"} THEN Len(u.item.received) ELSE 0)

\* identifiers and physical names are distinct across the items of both
\* requests, and each counter counts the request's own bytes
C26_Distinct ==
    /\ \A r, q \in UploadSlots : \A a \in C26_Items(up[r]), b \in C26_Items(up[q]) :
           (r # q \/ a # b) => (a.uuid # b.uuid /\ a.stored # b.stored)
    /\ \A r \in UploadSlots : up[r].total_size = C26_OwnBytes(up[r])

\* a step of request r leaves the files of the other request as they are
C26_Frame ==
    \A r, q \in UploadSlots :
        (r # q /\ up'[r] # up[r]) =>
            \A b \in C26_Items(up[q]) :
                /\ FsHas(fs', b.stored) = FsHas(fs, b.stored)
                /\ FsHas(fs, b.stored) => FsRead(fs', b.stored) = FsRead(fs, b.stored)

\* C26: for every interleaving of two concurrent upload requests, each created
\* item has an identifier and a physical file name distinct from every other
\* item's, no request writes to or deletes a file created by the other, and
\* each request's cumulative-size counter counts only its own bytes.
C26_Independent == [](C26_Distinct) /\ [][C26_Frame]_vars

\* both requests are in the middle of writing their item, each with its own file on disk
C26_Witness ==
    /\ up[1].pc = "chunk" /\ up[2].pc = "chunk"
    /\ up[1].item.received # <<>> /\ up[2].item.received # <<>>
    /\ FsHas(fs, up[1].item.stored) /\ FsHas(fs, up[2].item.stored)
    /\ up[1].item.stored # up[2].item.stored
    /\ up[1].total_size = 1 /\ up[2].total_size = 1

\* ---- C27
\* C27: the request sent upstream is equivalent to the inbound request: for
\* every HTTP method it has the same method, and it carries the same path and
\* query string and the same body bytes.
C27_EquivalentRequest ==
    \A i \in DOMAIN px_sent :
        /\ px_sent[i].method = px_req.method
        /\ px_sent[i].path = px_req.path
        /\ px_sent[i].query = px_req.query
        /\ (IF px_sent[i].body.some THEN px_sent[i].body.v ELSE <<>>) = px_req.body.bytes

\* ---- C28
\* C28: every label interpolated into a graph query is escaped so that, for
\* every input string, the store reads the text between the quotes as one
\* string literal whose value is the input: the file name in the INSERT of an
\* upload, and each label of the path in the queries of GET /file/{path}.
C28_StaysInLiteral ==
    /\ up[1].pc = "index" =>
           ParseLiteral(build_sparql_insert(up[1].item.uuid, up[1].item.safe,
                                            up[1].item.extension, up[1].item.file_size).label)
               = Some(up[1].item.safe)
    /\ (dl.route = "file" /\ dl.pc \in {"is_directory", "list", "lookup_file"}) =>
           QueryLabels(PathParts(dl.path)) = Some(PathParts(dl.path))

\* ---- C29
\* a step in which upload request 1 is aborted while it writes an item: the
\* ceiling is exceeded, the disk write fails, or the stream read fails
C29_Aborted ==
    /\ up[1].pc = "chunk"
    /\ up'[1].pc = "responded"
    /\ LastLog(up'[1]).st \in {"too_large", "write_failed", "read_failed"}

\* C29: when an upload request is aborted while processing its k-th item, only
\* that item's partial file is removed: the physical files and graph records
\* of the items before it are left unchanged, and the response reports failure
\* for the whole request.
C29_OnlyFailingItemRemoved ==
    [][ C29_Aborted =>
            /\ graph' = graph
            /\ \A e \in fs : e.name # up[1].item.stored => e \in fs'
            /\ \A e \in fs' : e \in fs /\ e.name # up[1].item.stored
            /\ up'[1].resp.status \in {400, 413, 500}
            /\ up'[1].uploaded_files = up[1].uploaded_files ]_vars

\* the second item of a request was aborted by a stream error; the first
\* item's file and record are there, the second's file is not
C29_Witness ==
    LET u == up[1]
    IN  /\ u.pc = "responded"
        /\ Len(u.log) = 2
        /\ u.log[1].st = "indexed"
        /\ u.log[2].st = "read_failed"
        /\ FsHas(fs, u.log[1].stored)
        /\ FsRead(fs, u.log[1].stored) = u.log[1].received
        /\ \E rec \in graph : rec.uuid = u.log[1].uuid
        /\ ~FsHas(fs, u.log[2].stored)
        /\ u.resp.status = 400

\* ---- C30
\* C30: the graph record of an item is emitted only after all of the item's
\* bytes are in its physical file: for every record an upload has emitted, the
\* file named by the record exists, holds every byte received for the item,
\* and has the size the record states; aborted items have no record.
C30_RecordMatchesFile ==
    \A r \in DOMAIN up : \A i \in DOMAIN up[r].log :
        LET e == up[r].log[i]
        IN  /\ e.st = "indexed" =>
                \E rec \in graph :
                    /\ rec.uuid = e.uuid
                    /\ rec.storedAs = e.stored
                    /\ FsHas(fs, rec.storedAs)
                    /\ FsRead(fs, rec.storedAs) = e.received
                    /\ rec.size = Len(FsRead(fs, rec.storedAs))
            /\ e.st \in {"too_large", "write_failed", "read_failed"} =>
                ~ \E rec \in graph : rec.uuid = e.uuid

====
